---- MODULE Spec2Model ----
(***************************************************************************)
(* A model of the mime-multipart parser and writer (src/src/lib.rs).       *)
(*                                                                         *)
(* Byte strings are sequences of one-byte atoms.  A header collection is   *)
(* the sequence of its (name, value) entries in iteration order.  An       *)
(* Option is a sequence of length 0 (None) or 1 (Some).  A Result is a     *)
(* record with an ok field.                                                *)
(***************************************************************************)
EXTENDS Integers, Sequences, FiniteSets, TLC

VARIABLES
    pc,         \* "idle" | "written" | "parsing" | "returned"
    wtree,      \* the nodes handed to write_multipart
    wbound,     \* the boundary handed to write_multipart
    output,     \* the Result of write_multipart and the bytes of its stream
    call,       \* the arguments of read_multipart_body and how they were made
    pos,        \* number of bytes the BufReader has consumed from the source
    stack,      \* the activation records of inner, innermost last
    fs,         \* the file system: directories and files with their content
    nextTmp,    \* number of temporary directories created so far
    streamed,   \* history: for each streamed file, where its body started
    result,     \* what read_multipart_body returned
    objs,       \* the FilePart values of the life-cycle specification
    created     \* history: the paths at which a file has been created

vars == <<pc, wtree, wbound, output, call, pos, stack, fs, nextTmp, streamed,
          result, objs, created>>

----------------------------------------------------------------------------
(* Bytes and byte strings                                                  *)

CR == "\r"
NL == "\n"
CRLF == <<CR, NL>>
LF == <<NL>>
DASHDASH == <<"-", "-">>
COLON_SP == <<":", " ">>

S_content_type == <<"c","o","n","t","e","n","t","-","t","y","p","e">>
S_content_disposition ==
    <<"c","o","n","t","e","n","t","-","d","i","s","p","o","s","i","t","i","o","n">>
S_multipart == <<"m","u","l","t","i","p","a","r","t">>
S_boundary == <<"b","o","u","n","d","a","r","y">>
S_attachment == <<"a","t","t","a","c","h","m","e","n","t">>
S_filename == <<"f","i","l","e","n","a","m","e">>
S_filename_eq == S_filename \o <<"=">>

Min(a, b) == IF a <= b THEN a ELSE b

MinOf(S) == CHOOSE m \in S : \A k \in S : m <= k

MaxOf(S) == CHOOSE m \in S : \A k \in S : k <= m

FirstOrNone(S) == IF S = {} THEN -1 ELSE MinOf(S)

\* The bytes s[i+1 .. i+Len(t)] are t (i is a 0-based offset).
MatchAt(s, t, i) == i + Len(t) <= Len(s) /\ SubSeq(s, i + 1, i + Len(t)) = t

\* Offset of the first occurrence of t in s at or after offset i, or -1.
FindFrom(s, t, i) == FirstOrNone({j \in i .. (Len(s) - Len(t)) : MatchAt(s, t, j)})

\* Offset e of the end of a field: of its delimiter, or of the text if the
\* delimiter is missing (at = -1).
EndAt(s, at) == IF at < 0 THEN Len(s) ELSE at

\* str::contains
Contains(s, t) == FindFrom(s, t, 0) >= 0

\* Bytes that are not legal in a token (header name, MIME type, parameter).
Separators == {" ", "\t", CR, NL, ":", ";", "/", "=", "\"", ","}

IsToken(s) == Len(s) > 0 /\ \A i \in 1 .. Len(s) : s[i] \notin Separators

\* Bytes above 0x7f: legal in a HeaderValue, not convertible by to_str.
ObsText == {"\\xE9"}

UpperToLower == [C |-> "c", T |-> "t", D |-> "d", A |-> "a", M |-> "m", B |-> "b"]

LowerByte(b) == IF b \in DOMAIN UpperToLower THEN UpperToLower[b] ELSE b

Lower(s) == [i \in 1 .. Len(s) |-> LowerByte(s[i])]

\* Number of leading bytes of s that are in set W.
RECURSIVE LeadIn(_, _)
LeadIn(s, W) ==
    IF s # <<>> /\ Head(s) \in W THEN 1 + LeadIn(Tail(s), W) ELSE 0

\* Number of trailing bytes of s that are in set W.
RECURSIVE TrailIn(_, _)
TrailIn(s, W) ==
    IF s # <<>> /\ s[Len(s)] \in W
    THEN 1 + TrailIn(SubSeq(s, 1, Len(s) - 1), W) ELSE 0

TrimLeft(s, W) == SubSeq(s, LeadIn(s, W) + 1, Len(s))

TrimRight(s, W) == SubSeq(s, 1, Len(s) - TrailIn(s, W))

----------------------------------------------------------------------------
(* HeaderMap                                                               *)

Entries(headers, name) == {i \in 1 .. Len(headers) : headers[i].name = name}

ValueAt(headers, hits) == IF hits = {} THEN <<>> ELSE <<headers[MinOf(hits)].value>>

\* HeaderMap::get: the first value stored under the name, as an Option.
Get(headers, name) == ValueAt(headers, Entries(headers, name))

\* HeaderMap::get_all
GetAll(headers, name) ==
    SelectSeq([i \in 1 .. Len(headers) |->
                  IF headers[i].name = name THEN <<headers[i].value>> ELSE <<>>],
              LAMBDA o : o # <<>>)

RECURSIVE appended(_)

\* HeaderMap::append of the entries in turn: a further value of a name
\* follows the earlier values of that name; a new name goes to the end.
appended(entries) ==
    IF entries = <<>> THEN <<>>
    ELSE SelectSeq(entries, LAMBDA e : e.name = entries[1].name)
         \o appended(SelectSeq(entries, LAMBDA e : e.name # entries[1].name))

Names(headers) == {headers[i].name : i \in 1 .. Len(headers)}

\* PartialEq for HeaderMap: same number of entries, same values per name.
HeaderMapEq(a, b) ==
    /\ Len(a) = Len(b)
    /\ \A n \in Names(a) : GetAll(a, n) = GetAll(b, n)

\* HeaderValue::to_str succeeds when every byte is visible ASCII.
ToStrOk(value) == \A i \in 1 .. Len(value) : value[i] \notin ObsText

----------------------------------------------------------------------------
(* Mime::from_str, as far as the program uses it: type "/" subtype and     *)
(* parameters "; name=value" with a token or a quoted value.               *)

NotMime == [ok |-> FALSE]

Param(name, value) == [name |-> name, value |-> value]

RECURSIVE MimeParams(_, _, _)

\* A quoted value, from the quote after the "=" at offset eq to the quote at q.
MimeQuoted(s, name, eq, q, acc) ==
    IF q < 0 THEN NotMime
    ELSE MimeParams(s, q + 1, Append(acc, Param(name, SubSeq(s, eq + 3, q))))

\* A token value, from the "=" at offset eq to offset e.
MimeBare(s, name, eq, e, acc) ==
    IF ~IsToken(SubSeq(s, eq + 2, e)) THEN NotMime
    ELSE MimeParams(s, e, Append(acc, Param(name, SubSeq(s, eq + 2, e))))

\* A parameter whose name starts at offset a and whose "=" is at offset eq.
MimeParam(s, a, eq, acc) ==
    IF eq < 0 \/ ~IsToken(SubSeq(s, a + 1, eq)) THEN NotMime
    ELSE IF eq + 1 < Len(s) /\ s[eq + 2] = "\""
    THEN MimeQuoted(s, Lower(SubSeq(s, a + 1, eq)), eq, FindFrom(s, <<"\"">>, eq + 2), acc)
    ELSE MimeBare(s, Lower(SubSeq(s, a + 1, eq)), eq,
                  EndAt(s, FindFrom(s, <<";">>, eq + 1)), acc)

MimeParamFrom(s, a, acc) == MimeParam(s, a, FindFrom(s, <<"=">>, a), acc)

\* The parameters of the text from offset i, after those of acc.
MimeParams(s, i, acc) ==
    IF i >= Len(s) THEN [ok |-> TRUE, params |-> acc]
    ELSE IF s[i + 1] # ";" THEN NotMime
    ELSE MimeParamFrom(s, i + 1 + LeadIn(SubSeq(s, i + 2, Len(s)), {" "}), acc)

MimeOf(type, ps) ==
    IF ~ps.ok THEN NotMime ELSE [ok |-> TRUE, type |-> type, params |-> ps.params]

MimeSubtype(s, slash, e) ==
    IF ~IsToken(SubSeq(s, slash + 2, e)) THEN NotMime
    ELSE MimeOf(Lower(SubSeq(s, 1, slash)), MimeParams(s, e, <<>>))

MimeType(s, slash) ==
    IF slash < 0 \/ ~IsToken(SubSeq(s, 1, slash)) THEN NotMime
    ELSE MimeSubtype(s, slash, EndAt(s, FindFrom(s, <<";">>, slash + 1)))

Mime_from_str(s) == MimeType(s, FindFrom(s, <<"/">>, 0))

\* Mime::get_param
Mime_get_param(mime, name) == Get(mime.params, name)

----------------------------------------------------------------------------
(* get_multipart_boundary                                                  *)

Err(e) == [ok |-> FALSE, err |-> e]

Ok(v) == [ok |-> TRUE, val |-> v]

\* A boundary that is the parameter value alone.
boundary_of_param_bare(p) ==
    IF p = <<>> THEN Err("BoundaryNotSpecified") ELSE Ok(p[1])

\* match mime.get_param(mime::BOUNDARY)
boundary_of_param(p) ==
    IF p = <<>> THEN Err("BoundaryNotSpecified") ELSE Ok(DASHDASH \o p[1])

\* if top_level != mime::MULTIPART
boundary_of_mime(mime) ==
    IF ~mime.ok THEN Err("HeaderValueNotMime")
    ELSE IF mime.type # S_multipart THEN Err("NotMultipart")
    ELSE boundary_of_param(Mime_get_param(mime, S_boundary))

\* match headers.get("content-type")
boundary_of_content_type(ct) ==
    IF ct = <<>> THEN Err("NoRequestContentType")
    ELSE IF ~ToStrOk(ct[1]) THEN Err("ToStr")
    ELSE boundary_of_mime(Mime_from_str(ct[1]))

get_multipart_boundary(headers) ==
    boundary_of_content_type(Get(headers, S_content_type))

----------------------------------------------------------------------------
(* httparse::parse_headers on a block that ends with a blank line, with    *)
(* room for max headers.  Lines end in CRLF or in a bare LF; white space   *)
(* around a value is not part of it.                                       *)

HttparseError == [status |-> "Error", err |-> "Httparse"]

StripCr(line) ==
    IF line # <<>> /\ line[Len(line)] = CR THEN SubSeq(line, 1, Len(line) - 1) ELSE line

\* The header whose name ends at offset colon, with its value.
httparse_header(name, value) ==
    IF \E k \in 1 .. Len(value) : value[k] = CR THEN HttparseError
    ELSE [status |-> "Header", header |-> [name |-> name, value |-> value]]

\* The line from offset i, with its colon and its line feed.
httparse_line(buf, i, colon, nl) ==
    IF nl < 0 THEN [status |-> "Partial"]
    ELSE IF colon < 0 \/ colon > nl \/ ~IsToken(SubSeq(buf, i + 1, colon))
    THEN HttparseError
    ELSE httparse_header(SubSeq(buf, i + 1, colon),
             TrimRight(StripCr(TrimLeft(SubSeq(buf, colon + 2, nl), {" ", "\t"})),
                       {" ", "\t"}))

\* What is at offset i when count headers have been stored: the end of the
\* block, the end of the bytes, an error, or one more header.
httparse_at(buf, i, count, max) ==
    IF i >= Len(buf) THEN [status |-> "Partial"]
    ELSE IF buf[i + 1] = NL THEN [status |-> "Complete"]
    ELSE IF buf[i + 1] = CR
    THEN IF i + 1 >= Len(buf) THEN [status |-> "Partial"]
         ELSE IF buf[i + 2] = NL THEN [status |-> "Complete"]
         ELSE HttparseError
    ELSE IF count >= max THEN HttparseError
    ELSE httparse_line(buf, i, FindFrom(buf, <<":">>, i), FindFrom(buf, LF, i))

\* The offsets at which a line starts: 0, and the offset after each line
\* feed (a header line ends at the first line feed after its start).
LineStarts(buf) ==
    SelectSeq([j \in 1 .. Len(buf) + 1 |-> j - 1], LAMBDA o : o = 0 \/ buf[o] = NL)

\* What is at the k-th line, the lines before it being headers.
httparse_nth(buf, starts, k, max) == httparse_at(buf, starts[k], k - 1, max)

\* The first line that is no header: the loop over the lines ends there.
httparse_stop(buf, starts, max) ==
    MinOf({k \in 1 .. Len(starts) : httparse_nth(buf, starts, k, max).status # "Header"})

\* The status at line k, with the headers of the lines before it.
httparse_status(buf, starts, max, k) ==
    IF httparse_nth(buf, starts, k, max).status = "Complete"
    THEN [status |-> "Complete",
          raw |-> [j \in 1 .. k - 1 |-> httparse_nth(buf, starts, j, max).header]]
    ELSE httparse_nth(buf, starts, k, max)

httparse_parse_headers(buf, max) ==
    httparse_status(buf, LineStarts(buf), max, httparse_stop(buf, LineStarts(buf), max))

\* HeaderValue::from_bytes accepts a value without control bytes.
HeaderValueOk(value) == \A i \in 1 .. Len(value) : value[i] \notin {CR, NL}

\* The raw headers the loop looks at: those before index e, the first one
\* with an empty value (break), or all of them (e = -1).
looked_at(raw, e) == IF e < 0 THEN raw ELSE SubSeq(raw, 1, e - 1)

\* One raw header with its value trimmed: name and value are converted.
collect_header(name, value) ==
    IF ~HeaderValueOk(value) \/ ~IsToken(name)
    THEN Err("InvalidHeaderNameOrValue")
    ELSE Ok([name |-> Lower(name), value |-> value])

collect_nth(raw, i) == collect_header(raw[i].name, TrimRight(raw[i].value, {" "}))

\* The loop over these raw headers: trim the trailing spaces, convert,
\* append; a header that cannot be converted ends the loop with an error.
collect_each(raw) ==
    IF \E i \in 1 .. Len(raw) : ~collect_nth(raw, i).ok
    THEN Err("InvalidHeaderNameOrValue")
    ELSE Ok(appended([i \in 1 .. Len(raw) |-> collect_nth(raw, i).val]))

\* A loop that leaves out a header with an empty value and goes on.
collect_headers_skipping(raw) ==
    collect_each(SelectSeq(raw, LAMBDA h : h.value # <<>>))

\* The loop over the raw headers: it stops at the first empty value.
collect_headers(raw) ==
    collect_each(looked_at(raw, FirstOrNone({i \in 1 .. Len(raw) : raw[i].value = <<>>})))

PartHeaderSlots == 4

MainHeaderSlots == 64

headers_of_status(st) ==
    IF st.status = "Complete" THEN collect_headers(st.raw)
    ELSE IF st.status = "Partial" THEN Err("PartialHeaders")
    ELSE Err(st.err)

\* The header block of a part: parse, then collect.
parse_part_headers(buf) ==
    headers_of_status(httparse_parse_headers(buf, PartHeaderSlots))

\* The header block of the request: parse, then collect.
parse_main_headers(buf) ==
    headers_of_status(httparse_parse_headers(buf, MainHeaderSlots))

----------------------------------------------------------------------------
(* The file system, FilePart and Drop                                      *)

\* fs.dirs is the set of existing temporary directories; fs.files maps each
\* existing file, [dir, name], to its content.
EmptyFs == [dirs |-> {}, files |-> <<>>]

FileExists(f, path) == path \in DOMAIN f.files

\* std::fs::remove_file: fails, changing nothing, when there is no such file.
remove_file(f, path) ==
    IF FileExists(f, path)
    THEN [f EXCEPT !.files = [p \in (DOMAIN f.files) \ {path} |-> f.files[p]]]
    ELSE f

\* std::fs::remove_dir: fails, changing nothing, when the directory is
\* missing or not empty.
remove_dir(f, dir) ==
    IF dir \in f.dirs /\ \A p \in DOMAIN f.files : p.dir # dir
    THEN [f EXCEPT !.dirs = f.dirs \ {dir}]
    ELSE f

\* File::create: an empty file at the path, if its directory exists.
File_create(f, path) ==
    [f EXCEPT !.files = [p \in (DOMAIN f.files) \cup {path} |->
                            IF p = path THEN <<>> ELSE f.files[p]]]

write_file(f, path, bytes) ==
    [f EXCEPT !.files = [p \in (DOMAIN f.files) \cup {path} |->
                            IF p = path THEN bytes ELSE f.files[p]]]

\* FilePart::new
FilePart_new(headers, path) ==
    [kind |-> "File", headers |-> headers, path |-> path, size |-> <<>>,
     tempdir |-> <<>>]

\* FilePart::create, with d the fresh temporary directory.
FilePart_create(headers, d) ==
    [kind |-> "File", headers |-> headers, path |-> [dir |-> d, name |-> "nonce"],
     size |-> <<>>, tempdir |-> <<d>>]

\* FilePart::do_not_delete_on_drop
\* A do_not_delete_on_drop that leaves the tempdir in place.
do_not_delete_on_drop_kept(fp) == fp

do_not_delete_on_drop(fp) == [fp EXCEPT !.tempdir = <<>>]

\* A drop that removes nothing.
drop_FilePart_keeps(f, fp) == f

\* A drop that removes the directory before the file.
drop_FilePart_dir_first(f, fp) ==
    IF fp.tempdir # <<>>
    THEN remove_file(remove_dir(f, fp.tempdir[1]), fp.path)
    ELSE f

\* Drop for FilePart
drop_FilePart(f, fp) ==
    IF fp.tempdir # <<>>
    THEN remove_dir(remove_file(f, fp.path), fp.tempdir[1])
    ELSE f

RECURSIVE drop_nodes(_, _)

drop_node(f, n) ==
    IF n.kind = "File" THEN drop_FilePart(f, n)
    ELSE IF n.kind = "Multipart" THEN drop_nodes(f, n.nodes)
    ELSE f

\* Dropping a Vec<Node>: every FilePart in it, at any depth, is dropped.
drop_nodes(f, nodes) ==
    IF nodes = <<>> THEN f ELSE drop_nodes(drop_node(f, Head(nodes)), Tail(nodes))

----------------------------------------------------------------------------
(* write_multipart                                                         *)

\* The lines "name: value CRLF" of a header collection, in iteration order.
RECURSIVE header_lines(_)
header_lines(headers) ==
    IF headers = <<>> THEN <<>>
    ELSE Head(headers).name \o COLON_SP \o Head(headers).value \o CRLF
         \o header_lines(Tail(headers))

\* A write that is not counted.
write_all_uncounted(w, bytes) == [stream |-> w.stream \o bytes, count |-> w.count]

\* count += stream.write_all_count(bytes)?, on w = [stream, count]
write_all_count(w, bytes) ==
    [stream |-> w.stream \o bytes, count |-> w.count + Len(bytes)]

RECURSIVE write_nodes(_, _, _, _)

\* count += write_multipart(stream, &boundary, subnodes)?, then the line
\* terminator and the rest of the loop.
write_after_sub(count, sub, boundary, nodes, files) ==
    IF ~sub.ok THEN sub
    ELSE write_nodes(write_all_count([stream |-> sub.stream,
                                      count |-> count + sub.count], CRLF),
                     boundary, Tail(nodes), files)

\* Node::Multipart: b is the Result of get_multipart_boundary(headers).
write_sub(w, b, boundary, nodes, files) ==
    IF ~b.ok THEN [ok |-> FALSE, err |-> b.err, stream |-> w.stream]
    ELSE write_after_sub(
             w.count + Len(header_lines(Head(nodes).headers) \o CRLF),
             write_nodes([stream |-> w.stream \o header_lines(Head(nodes).headers) \o CRLF,
                          count |-> 0],
                         b.val, Head(nodes).nodes, files),
             boundary, nodes, files)

\* Node::File: the headers, the blank line, the content of the file.
write_file_node(w, boundary, nodes, files) ==
    IF Head(nodes).path \notin DOMAIN files
    THEN [ok |-> FALSE, err |-> "Io", stream |-> w.stream]
    ELSE write_nodes(write_all_count(w, files[Head(nodes).path] \o CRLF),
                     boundary, Tail(nodes), files)

\* One turn of the loop, after the boundary line has been written.
write_node(w, boundary, nodes, files) ==
    IF Head(nodes).kind = "Part"
    THEN write_nodes(write_all_count(w, header_lines(Head(nodes).headers) \o CRLF
                                        \o Head(nodes).body \o CRLF),
                     boundary, Tail(nodes), files)
    ELSE IF Head(nodes).kind = "File"
    THEN write_file_node(write_all_count(w, header_lines(Head(nodes).headers) \o CRLF),
                         boundary, nodes, files)
    ELSE write_sub(w, get_multipart_boundary(Head(nodes).headers), boundary, nodes, files)

\* The loop of write_multipart over the nodes and, after it, the final
\* boundary.  The Result carries the stream as the call left it.
write_nodes(w, boundary, nodes, files) ==
    IF nodes = <<>>
    THEN [ok |-> TRUE] @@ write_all_count(w, DASHDASH \o boundary \o DASHDASH)
    ELSE write_node(write_all_count(w, DASHDASH \o boundary \o CRLF),
                    boundary, nodes, files)

write_multipart(stream, boundary, nodes, files) ==
    write_nodes([stream |-> stream, count |-> 0], boundary, nodes, files)

----------------------------------------------------------------------------
(* FilePart::filename and generate_boundary                                *)

S_filename_ext == S_filename \o <<"*","=","U","T","F","-","8","'","'">>

\* value.get(start..).unwrap().trim_matches('"'): the rest of the value
\* from offset start, without the double quotes at its ends.
rest_unquoted(value, start) ==
    TrimRight(TrimLeft(SubSeq(value, start + 1, Len(value)), {"\""}), {"\""})

\* match value.find("filename*=UTF-8''")
filename_extended(value, index) ==
    IF index < 0 THEN Ok(<<>>)
    ELSE Ok(<<rest_unquoted(value, index + Len(S_filename_ext))>>)

\* match value.find("filename=")
filename_plain(value, index) ==
    IF index < 0 THEN filename_extended(value, FindFrom(value, S_filename_ext, 0))
    ELSE Ok(<<rest_unquoted(value, index + Len(S_filename_eq))>>)

get_content_disposition_filename(cd) ==
    IF ~ToStrOk(cd) THEN Err("ToStr")
    ELSE IF ~Contains(cd, S_filename) THEN Ok(<<>>)
    ELSE filename_plain(cd, FindFrom(cd, S_filename_eq, 0))

filename_of(cd) ==
    IF cd = <<>> THEN Ok(<<>>) ELSE get_content_disposition_filename(cd[1])

\* FilePart::filename
filename(filepart) == filename_of(Get(filepart.headers, S_content_disposition))

\* TextNonce::sized(68)
NonceLen == 68

\* A map that leaves "/" in the token.
boundary_byte_eq_only(ch) == IF ch = "=" THEN "-" ELSE ch

\* .map(|&ch| ...)
boundary_byte(ch) == IF ch = "=" THEN "-" ELSE IF ch = "/" THEN "." ELSE ch

\* generate_boundary, of the text of the nonce.
generate_boundary(nonce) == [i \in 1 .. Len(nonce) |-> boundary_byte(nonce[i])]

----------------------------------------------------------------------------
(* write_multipart_chunked                                                 *)

HexDigits == <<"0","1","2","3","4","5","6","7","8","9","a","b","c","d","e","f">>

\* format!("{:x}", n)
RECURSIVE Hex(_)
Hex(n) == IF n < 16 THEN <<HexDigits[n + 1]>> ELSE Hex(n \div 16) \o <<HexDigits[(n % 16) + 1]>>

\* A chunk without the CRLF after its payload.
write_chunk_unterminated(stream, chunk) == stream \o (Hex(Len(chunk)) \o CRLF \o chunk)

write_chunk(stream, chunk) == stream \o (Hex(Len(chunk)) \o CRLF \o chunk \o CRLF)

\* for header in headers.iter(): name, ": ", value, CRLF, a chunk each.
RECURSIVE header_chunks(_, _)
header_chunks(stream, headers) ==
    IF headers = <<>> THEN stream
    ELSE stream
         \o (write_chunk(<<>>, Head(headers).name) \o write_chunk(<<>>, COLON_SP)
             \o write_chunk(<<>>, Head(headers).value) \o write_chunk(<<>>, CRLF)
             \o header_chunks(<<>>, Tail(headers)))

RECURSIVE chunked_nodes(_, _, _, _)

\* write_multipart_chunked(stream, &boundary, subnodes)?, then the line
\* terminator.
chunked_after_sub(sub) ==
    IF ~sub.ok THEN sub
    ELSE [ok |-> TRUE, stream |-> write_chunk(sub.stream, CRLF)]

\* Node::Multipart: b is the Result of get_multipart_boundary(headers).
chunked_sub(stream, b, nodes, files) ==
    IF ~b.ok THEN [ok |-> FALSE, err |-> b.err, stream |-> stream]
    ELSE chunked_after_sub(
             chunked_nodes(write_chunk(header_chunks(stream, Head(nodes).headers), CRLF),
                           b.val, Head(nodes).nodes, files))

\* Node::File: the length of the file, its content and CRLF, after the
\* headers and the blank line.
chunked_file_node(stream, nodes, files) ==
    IF Head(nodes).path \notin DOMAIN files
    THEN [ok |-> FALSE, err |-> "Io", stream |-> stream]
    ELSE [ok |-> TRUE,
          stream |-> stream \o (Hex(Len(files[Head(nodes).path])) \o CRLF
                                \o files[Head(nodes).path] \o CRLF
                                \o write_chunk(<<>>, CRLF))]

\* One turn of the loop, after the boundary line has been written: the
\* Result of the writes of the turn.
chunked_node(stream, nodes, files) ==
    IF Head(nodes).kind = "Part"
    THEN [ok |-> TRUE,
          stream |-> header_chunks(stream, Head(nodes).headers)
                     \o (write_chunk(<<>>, CRLF) \o write_chunk(<<>>, Head(nodes).body)
                         \o write_chunk(<<>>, CRLF))]
    ELSE IF Head(nodes).kind = "File"
    THEN chunked_file_node(write_chunk(header_chunks(stream, Head(nodes).headers), CRLF),
                           nodes, files)
    ELSE chunked_sub(stream, get_multipart_boundary(Head(nodes).headers), nodes, files)

\* The ? of a turn: an error ends the loop, otherwise the loop goes on with
\* the next node, after what the turn has written.
chunked_after_node(stream, turn, boundary, nodes, files) ==
    IF ~turn.ok THEN [turn EXCEPT !.stream = stream \o @]
    ELSE [chunked_nodes(<<>>, boundary, Tail(nodes), files)
              EXCEPT !.stream = (stream \o turn.stream) \o @]

\* The loop over the nodes and, after it, the final boundary and the empty
\* chunk.
chunked_nodes(stream, boundary, nodes, files) ==
    IF nodes = <<>>
    THEN [ok |-> TRUE,
          stream |-> stream
                     \o (write_chunk(<<>>, DASHDASH) \o write_chunk(<<>>, boundary)
                         \o write_chunk(<<>>, DASHDASH) \o write_chunk(<<>>, <<>>))]
    ELSE chunked_after_node(
             stream,
             chunked_node(write_chunk(<<>>, DASHDASH) \o write_chunk(<<>>, boundary)
                              \o write_chunk(<<>>, CRLF),
                          nodes, files),
             boundary, nodes, files)

write_multipart_chunked(stream, boundary, nodes, files) ==
    chunked_nodes(stream, boundary, nodes, files)

----------------------------------------------------------------------------
(* The reader: BufReader over the source, and BufReadExt                   *)

BufCapacity == 4096

\* BufReader::fill_buf at offset from, over a source that hands out at most
\* chunk bytes per read: the buffer is refilled only when it is empty, so
\* the buffered bytes end at the next multiple of chunk.
fill_buf(src, from, chunk) ==
    SubSeq(src, from + 1, Min(Len(src), ((from \div chunk) + 1) * chunk))

\* A scan that leaves the token it has found in the source.
Scanned_before_token(src, tlen, from, i) ==
    IF i < 0
    THEN [found |-> FALSE, read |-> Len(src) - from,
          out |-> SubSeq(src, from + 1, Len(src)), next |-> Len(src)]
    ELSE [found |-> TRUE, read |-> i - from,
          out |-> SubSeq(src, from + 1, i), next |-> i]

\* The outcome of a scan from offset from whose token was found at offset i.
Scanned(src, tlen, from, i) ==
    IF i < 0
    THEN [found |-> FALSE, read |-> Len(src) - from,
          out |-> SubSeq(src, from + 1, Len(src)), next |-> Len(src)]
    ELSE [found |-> TRUE, read |-> i - from,
          out |-> SubSeq(src, from + 1, i), next |-> i + tlen]

\* BufReadExt::stream_until_token from offset from: the bytes before the
\* first occurrence of the token go to out, the token is consumed; read is
\* the number of bytes that went to out.
stream_until_token(src, token, from) ==
    Scanned(src, Len(token), from, FindFrom(src, token, from))

----------------------------------------------------------------------------
(* inner: classification of a part                                         *)

nested_of_mime(mime) ==
    IF ~mime.ok THEN Err("HeaderValueNotMime") ELSE Ok(mime.type = S_multipart)

nested_of_content_type(ct) ==
    IF ct = <<>> THEN Ok(FALSE)
    ELSE IF ~ToStrOk(ct[1]) THEN Err("ToStr")
    ELSE nested_of_mime(Mime_from_str(ct[1]))

\* "Check for a nested multipart"
is_nested(part_headers) == nested_of_content_type(Get(part_headers, S_content_type))

\* A test that takes a content-disposition that is no text for that of an
\* in-memory part.
file_of_text_or_not(cd) ==
    IF cd = <<>> THEN Ok(FALSE)
    ELSE IF ~ToStrOk(cd[1]) THEN Ok(FALSE)
    ELSE Ok(Contains(cd[1], S_attachment) \/ Contains(cd[1], S_filename))

\* A test of the content-disposition for `attachment` alone.
file_of_attachment_only(cd) ==
    IF cd = <<>> THEN Ok(FALSE)
    ELSE IF ~ToStrOk(cd[1]) THEN Err("ToStr")
    ELSE Ok(Contains(cd[1], S_attachment))

file_of_content_disposition(cd) ==
    IF cd = <<>> THEN Ok(FALSE)
    ELSE IF ~ToStrOk(cd[1]) THEN Err("ToStr")
    ELSE Ok(Contains(cd[1], S_attachment) \/ Contains(cd[1], S_filename))

\* A decision that does not look at always_use_files.
is_file_by_disposition(part_headers, always_use_files) ==
    file_of_content_disposition(Get(part_headers, S_content_disposition))

\* let is_file = always_use_files || { ... }
is_file(part_headers, always_use_files) ==
    IF always_use_files THEN Ok(TRUE)
    ELSE file_of_content_disposition(Get(part_headers, S_content_disposition))

leaf_of(f) == IF ~f.ok THEN f ELSE Ok(IF f.val THEN "file" ELSE "part")

kind_of(n, part_headers, always_use_files) ==
    IF ~n.ok THEN n
    ELSE IF n.val THEN Ok("nested")
    ELSE leaf_of(is_file(part_headers, always_use_files))

\* What the loop body does with a part: "nested", "file", "part", or the
\* error it returns.
classify(part_headers, always_use_files) ==
    kind_of(is_nested(part_headers), part_headers, always_use_files)

\* filepart.size = Some(read)
\* A size that counts the line terminator before the boundary.
set_size_with_terminator(filepart, read) == [filepart EXCEPT !.size = <<read + 2>>]

set_size(filepart, read) == [filepart EXCEPT !.size = <<read>>]

Node_Part(headers, body) == [kind |-> "Part", headers |-> headers, body |-> body]

Node_Multipart(headers, nodes) ==
    [kind |-> "Multipart", headers |-> headers, nodes |-> nodes]


----------------------------------------------------------------------------
(* inner as a state machine: one activation record per container           *)

Frame(headers) ==
    [headers |-> headers, phase |-> "boundary", boundary |-> <<>>, lt |-> <<>>,
     nodes |-> <<>>, part_headers |-> <<>>]

Top == stack[Len(stack)]

SetTop(f) == [stack EXCEPT ![Len(stack)] = f]

\* The nodes alive in the activation records, innermost first.
RECURSIVE live_nodes(_)
live_nodes(st) ==
    IF st = <<>> THEN <<>> ELSE st[Len(st)].nodes \o live_nodes(SubSeq(st, 1, Len(st) - 1))

\* An error return: the locals and the node vectors of every activation
\* record are dropped while the error propagates to the caller.
Fail(err, f, locals, at) ==
    /\ pc' = "returned"
    /\ result' = [ok |-> FALSE, err |-> err]
    /\ fs' = drop_nodes(f, locals \o live_nodes(stack))
    /\ pos' = at
    /\ stack' = <<>>

\* The loop of the innermost activation goes on from offset at.
Continue(frame, f, at) ==
    /\ stack' = SetTop(frame)
    /\ pos' = at
    /\ fs' = f
    /\ UNCHANGED <<pc, result>>

Running == pc = "parsing" /\ stack # <<>>

\* "Read past the initial boundary"
PastBoundary(boundary, r) ==
    IF ~r.found THEN Fail("EofBeforeFirstBoundary", fs, <<>>, r.next)
    ELSE Continue([Top EXCEPT !.boundary = boundary, !.phase = "sniff"], fs, r.next)

FirstBoundary(b) ==
    IF ~b.ok THEN Fail(b.err, fs, <<>>, pos)
    ELSE PastBoundary(b.val, stream_until_token(call.src, b.val, pos))

\* get_multipart_boundary, then the scan for the first boundary.
InnerBoundary ==
    /\ Running /\ Top.phase = "boundary"
    /\ FirstBoundary(get_multipart_boundary(Top.headers))
    /\ UNCHANGED <<wtree, wbound, output, call, nextTmp, streamed, objs, created>>

\* A sniff that takes a line that ends in CRLF for one that ends in LF.
sniff_line_feed(peeker) ==
    IF peeker # <<>> /\ peeker[1] \in {CR, NL} THEN <<LF>> ELSE <<>>

\* A sniff that knows CRLF only.
sniff_crlf_only(peeker) ==
    IF Len(peeker) > 1 /\ SubSeq(peeker, 1, 2) = CRLF THEN <<CRLF>> ELSE <<>>

\* "Use their first line terminator to determine whether to use CRLF or LF."
sniff(peeker) ==
    IF Len(peeker) > 1 /\ SubSeq(peeker, 1, 2) = CRLF THEN <<CRLF>>
    ELSE IF peeker # <<>> /\ peeker[1] = NL THEN <<LF>>
    ELSE <<>>

Sniffed(lt) ==
    IF lt = <<>> THEN Fail("NoCrLfAfterBoundary", fs, <<>>, pos)
    ELSE Continue([Top EXCEPT !.lt = lt[1], !.phase = "loop"], fs, pos)

InnerSniff ==
    /\ Running /\ Top.phase = "sniff"
    /\ Sniffed(sniff(fill_buf(call.src, pos, call.chunk)))
    /\ UNCHANGED <<wtree, wbound, output, call, nextTmp, streamed, objs, created>>

\* "If the next two lookahead characters are '--', parsing is finished."
sees_close(peeker) == Len(peeker) >= 2 /\ SubSeq(peeker, 1, 2) = DASHDASH

\* nodes.push(Node::Multipart((part_headers, inner_nodes))); continue;
push_multipart(outer, inner_nodes) ==
    [outer EXCEPT !.nodes = Append(outer.nodes,
                                   Node_Multipart(outer.part_headers, inner_nodes)),
                  !.phase = "loop"]

\* return Ok(()): to read_multipart_body, which returns the nodes, or to the
\* enclosing activation of inner, which pushes the Multipart node and
\* continues its loop.
InnerClose ==
    /\ Running /\ Top.phase = "loop"
    /\ sees_close(fill_buf(call.src, pos, call.chunk))
    /\ IF Len(stack) = 1
       THEN /\ pc' = "returned"
            /\ result' = [ok |-> TRUE, nodes |-> Top.nodes]
            /\ stack' = <<>>
       ELSE /\ stack' = Append(SubSeq(stack, 1, Len(stack) - 2),
                               push_multipart(stack[Len(stack) - 1], Top.nodes))
            /\ UNCHANGED <<pc, result>>
    /\ UNCHANGED <<wtree, wbound, output, call, pos, fs, nextTmp, streamed, objs,
                   created>>

\* "Parse the headers"
PartHeaders(hs, at) ==
    IF ~hs.ok THEN Fail(hs.err, fs, <<>>, at)
    ELSE Continue([Top EXCEPT !.part_headers = hs.val, !.phase = "body"], fs, at)

\* "Read the headers (which end in 2 line terminators)"
HeaderBlock(r) ==
    IF ~r.found THEN Fail("EofInPartHeaders", fs, <<>>, r.next)
    ELSE PartHeaders(parse_part_headers(r.out \o Top.lt \o Top.lt), r.next)

\* "Read the line terminator after the boundary"
AfterBoundary(r) ==
    IF ~r.found THEN Fail("NoCrLfAfterBoundary", fs, <<>>, r.next)
    ELSE HeaderBlock(stream_until_token(call.src, Top.lt \o Top.lt, r.next))

InnerPartHeaders ==
    /\ Running /\ Top.phase = "loop"
    /\ ~sees_close(fill_buf(call.src, pos, call.chunk))
    /\ AfterBoundary(stream_until_token(call.src, Top.lt, pos))
    /\ UNCHANGED <<wtree, wbound, output, call, nextTmp, streamed, objs, created>>

Classified(c, kind) == c.ok /\ c.val = kind

\* A header value of the part that the classification cannot interpret.
BadHeader(c) == ~c.ok /\ Fail(c.err, fs, <<>>, pos)

InnerBadHeader ==
    /\ Running /\ Top.phase = "body"
    /\ BadHeader(classify(Top.part_headers, call.always_use_files))
    /\ UNCHANGED <<wtree, wbound, output, call, nextTmp, streamed, objs, created>>

\* "Recurse": inner on the same reader with the part's headers.
InnerNested ==
    /\ Running /\ Top.phase = "body"
    /\ Classified(classify(Top.part_headers, call.always_use_files), "nested")
    /\ stack' = Append(stack, Frame(Top.part_headers))
    /\ UNCHANGED <<pc, wtree, wbound, output, call, pos, fs, nextTmp, streamed,
                   result, objs, created>>

\* The temporary directory and the empty file of a fresh FilePart.
with_file(f, filepart) ==
    File_create([f EXCEPT !.dirs = f.dirs \cup {filepart.tempdir[1]}], filepart.path)

\* "Stream out the file": r is the outcome of the scan into the file.
FileBody(filepart, r, f) ==
    IF ~r.found THEN Fail("EofInFile", f, <<filepart>>, r.next)
    ELSE Continue([Top EXCEPT !.nodes = Append(Top.nodes, set_size(filepart, r.read)),
                              !.phase = "loop"], f, r.next)

StreamFile(filepart, r) ==
    FileBody(filepart, r, write_file(with_file(fs, filepart), filepart.path, r.out))

\* "Setup a file to capture the contents", "Stream out the file".
InnerFile ==
    /\ Running /\ Top.phase = "body"
    /\ Classified(classify(Top.part_headers, call.always_use_files), "file")
    /\ nextTmp' = nextTmp + 1
    /\ streamed' = Append(streamed, [dir |-> nextTmp + 1, start |-> pos,
                                     token |-> Top.lt \o Top.boundary])
    /\ StreamFile(FilePart_create(Top.part_headers, nextTmp + 1),
                  stream_until_token(call.src, Top.lt \o Top.boundary, pos))
    /\ UNCHANGED <<wtree, wbound, output, call, objs, created>>

PartBody(r) ==
    IF ~r.found THEN Fail("EofInPart", fs, <<>>, r.next)
    ELSE Continue([Top EXCEPT !.nodes = Append(Top.nodes,
                                               Node_Part(Top.part_headers, r.out)),
                              !.phase = "loop"], fs, r.next)

\* The in-memory part: its body is read into buf.
InnerPart ==
    /\ Running /\ Top.phase = "body"
    /\ Classified(classify(Top.part_headers, call.always_use_files), "part")
    /\ PartBody(stream_until_token(call.src, Top.lt \o Top.boundary, pos))
    /\ UNCHANGED <<wtree, wbound, output, call, nextTmp, streamed, objs, created>>

----------------------------------------------------------------------------
(* The inputs: node trees, boundaries, and well-formed bodies              *)

MaxBody == 1
MaxChunk == 2

V_text_plain == <<"t","e","x","t","/","p","l","a","i","n">>
V_form_data == <<"f","o","r","m","-","d","a","t","a",";"," ","n","a","m","e","=","a">>
V_file == <<"f","i","l","e",";"," ">> \o S_filename_eq \o <<"f">>
V_not_mime == <<"x">>
V_multipart(b) ==
    S_multipart \o <<"/","m","i","x","e","d",";"," ">> \o S_boundary \o <<"=">> \o b

Hdr(name, value) == [name |-> name, value |-> value]

B_outer == <<"B">>
B_inner == <<"P">>
Boundaries == {B_outer, <<"b","0">>}

\* The header collection of a request whose body has boundary b.
OuterHeaders(b) == <<Hdr(S_content_type, V_multipart(b))>>

Bodies == {[i \in 1 .. n |-> "x"] : n \in 0 .. MaxBody}

P_plain(body) == Node_Part(<<Hdr(S_content_type, V_text_plain)>>, body)
P_form(body) == Node_Part(<<Hdr(S_content_disposition, V_form_data)>>, body)
P_bare(body) == Node_Part(<<>>, body)
P_file(body) == Node_Part(<<Hdr(S_content_disposition, V_file)>>, body)
P_attachment(body) ==
    Node_Part(<<Hdr(S_content_type, V_text_plain),
                Hdr(S_content_disposition, S_attachment)>>, body)
P_not_mime(body) == Node_Part(<<Hdr(S_content_type, V_not_mime)>>, body)
M_mixed(nodes) == Node_Multipart(OuterHeaders(B_inner), nodes)
M_files(nodes) ==
    Node_Multipart(<<Hdr(S_content_disposition, V_file)>> \o OuterHeaders(B_inner), nodes)

\* Sequences of Part nodes.
PartTrees ==
    {<<>>}
    \cup {<<P_bare(b)>> : b \in Bodies}
    \cup {<<P_plain(b)>> : b \in Bodies}
    \cup {<<P_plain(b), P_form(b)>> : b \in Bodies}

\* Sequences with a nested container.
NestedTrees ==
    {<<M_mixed(<<P_form(b), P_plain(b)>>)>> : b \in Bodies}
    \cup {<<M_mixed(<<P_file(b)>>), P_form(b)>> : b \in Bodies}
    \cup {<<P_file(b), M_files(<<P_file(b), P_plain(b)>>)>> : b \in Bodies}

B_deep == <<"Q">>
M_deep(nodes) == Node_Multipart(OuterHeaders(B_deep), nodes)

\* A container that declares the boundary of the container it is in.
M_same(nodes) == Node_Multipart(OuterHeaders(B_outer), nodes)

\* Sequences with a container in a container, and with a container whose
\* boundary is that of the body.
DeepTrees ==
    {<<P_form(b), M_mixed(<<M_deep(<<P_file(b)>>), P_plain(b)>>)>> : b \in Bodies}
    \cup {<<M_same(<<P_plain(b)>>)>> : b \in Bodies}

\* Sequences whose parts the parser is to classify.
LeafTrees ==
    {<<P_form(b), P_file(b), P_attachment(b)>> : b \in Bodies}
    \cup {<<P_file(b), P_not_mime(b)>> : b \in Bodies}

Trees == PartTrees \cup NestedTrees \cup LeafTrees \cup DeepTrees

RECURSIVE wire_headers(_, _)
wire_headers(headers, lt) ==
    IF headers = <<>> THEN <<>>
    ELSE Head(headers).name \o COLON_SP \o Head(headers).value \o lt
         \o wire_headers(Tail(headers), lt)

RECURSIVE Wire(_, _, _)

WireContent(n, lt) ==
    IF n.kind = "Multipart"
    THEN Wire(get_multipart_boundary(n.headers).val, lt, n.nodes)
    ELSE n.body

\* The body a sender makes of the nodes: every part is the delimiter line,
\* the header lines, a blank line and the content; a container's content is
\* the body made of its children with its own delimiter.
Wire(delim, lt, nodes) ==
    IF nodes = <<>> THEN delim \o DASHDASH
    ELSE delim \o lt \o wire_headers(Head(nodes).headers, lt) \o lt
         \o WireContent(Head(nodes), lt) \o lt \o Wire(delim, lt, Tail(nodes))

ChunkSizes == (1 .. MaxChunk) \cup {BufCapacity}

----------------------------------------------------------------------------
(* The calls                                                               *)

NoCall ==
    [src |-> <<>>, headers |-> <<>>, always_use_files |-> FALSE, chunk |-> BufCapacity,
     origin |-> "none", tree |-> <<>>, boundary |-> <<>>, lt |-> <<>>, whole |-> TRUE]

NoOutput == [ok |-> FALSE, err |-> "none", stream |-> <<>>]

NoResult == [ok |-> FALSE, err |-> "none"]

\* write_multipart(&mut output, boundary, &nodes) on an empty Vec<u8>.
WriteMultipart ==
    /\ pc = "idle"
    /\ \E tree \in PartTrees \cup NestedTrees, b \in Boundaries :
          /\ wtree' = tree
          /\ wbound' = b
          /\ output' = write_multipart(<<>>, b, tree, fs.files)
    /\ pc' = "written"
    /\ UNCHANGED <<call, pos, stack, fs, nextTmp, streamed, result, objs, created>>

\* read_multipart_body(&mut source, &headers, always_use_files): the reader
\* is made and inner is entered.
Enter(c) ==
    /\ call' = c
    /\ stack' = <<Frame(c.headers)>>
    /\ pos' = 0
    /\ pc' = "parsing"

\* read_multipart_body on the bytes write_multipart produced, with the
\* headers of a request that declares the boundary.
ReadWritten ==
    /\ pc = "written" /\ output.ok
    /\ \E chunk \in ChunkSizes, always \in BOOLEAN :
          Enter([src |-> output.stream, headers |-> OuterHeaders(wbound),
                 always_use_files |-> always, chunk |-> chunk,
                 origin |-> "written", tree |-> wtree, boundary |-> wbound,
                 lt |-> CRLF, whole |-> TRUE])
    /\ UNCHANGED <<wtree, wbound, output, fs, nextTmp, streamed, result, objs, created>>

Received(body, tree, lt, chunk, always) ==
    \E len \in 0 .. Len(body) :
        Enter([src |-> SubSeq(body, 1, len), headers |-> OuterHeaders(B_outer),
               always_use_files |-> always, chunk |-> chunk,
               origin |-> "received", tree |-> tree, boundary |-> B_outer,
               lt |-> lt, whole |-> (len = Len(body))])

\* read_multipart_body on a body received from a sender; the source may end
\* anywhere in it.
ReadReceived ==
    /\ pc = "idle"
    /\ \E tree \in Trees, lt \in {CRLF, LF}, chunk \in ChunkSizes, always \in BOOLEAN :
          Received(Wire(DASHDASH \o B_outer, lt, tree), tree, lt, chunk, always)
    /\ UNCHANGED <<wtree, wbound, output, fs, nextTmp, streamed, result, objs, created>>

\* The other line terminator.
Other(lt) == IF lt = CRLF THEN LF ELSE CRLF

\* A delimiter that is not written as the rest are: the delimiter number at
\* comes after the bytes pre instead of the line terminator, and is followed
\* by the bytes pad and the line end post.
Variation(at, pre, pad, post) == [at |-> at, pre |-> pre, pad |-> pad, post |-> post]

Pads == {<<" ">>, <<"x">>}

\* None; bytes between a delimiter and its line end; a delimiter written
\* with the other line terminator.
Variations(lt) ==
    {Variation(0, lt, <<>>, lt)}
    \cup {Variation(at, lt, pad, lt) : at \in 1 .. 2, pad \in Pads}
    \cup {Variation(2, Other(lt), <<>>, Other(lt))}

VariedTrees ==
    {<<P_plain(b), P_form(b)>> : b \in Bodies}
    \cup {<<P_form(b), M_mixed(<<P_file(b), P_plain(b)>>)>> : b \in Bodies}

\* The content of a part whose nested container is written with the line
\* terminator sub.
VariedContent(n, sub) ==
    IF n.kind = "Multipart"
    THEN Wire(get_multipart_boundary(n.headers).val, sub, n.nodes)
    ELSE n.body

\* The body a sender makes of the nodes, a nested container written with
\* the line terminator sub and one delimiter written as v says; i is the
\* number of the delimiter of the first node.
RECURSIVE WireVaried(_, _, _, _, _, _)
WireVaried(delim, lt, sub, nodes, i, v) ==
    IF nodes = <<>> THEN delim \o DASHDASH
    ELSE delim \o (IF i = v.at THEN v.pad \o v.post ELSE lt)
         \o wire_headers(Head(nodes).headers, lt) \o lt
         \o VariedContent(Head(nodes), sub)
         \o (IF i + 1 = v.at THEN v.pre ELSE lt)
         \o WireVaried(delim, lt, sub, Tail(nodes), i + 1, v)

\* read_multipart_body on a body in which a nested container has a line
\* terminator of its own, or one delimiter is not written as the rest.
ReadVaried ==
    /\ pc = "idle"
    /\ \E tree \in VariedTrees, lt \in {CRLF, LF}, sub \in {CRLF, LF},
          chunk \in ChunkSizes, always \in BOOLEAN :
          \E v \in Variations(lt) :
              Enter([src |-> WireVaried(DASHDASH \o B_outer, lt, sub, tree, 1, v),
                     headers |-> OuterHeaders(B_outer),
                     always_use_files |-> always, chunk |-> chunk,
                     origin |-> "varied", tree |-> tree, boundary |-> B_outer,
                     lt |-> lt, whole |-> TRUE, sub |-> sub, v |-> v])
    /\ UNCHANGED <<wtree, wbound, output, fs, nextTmp, streamed, result, objs, created>>

\* A header line without a value, a line whose name is no token, and
\* further lines.
H_empty == Hdr(<<"x">>, <<>>)
H_bad == Hdr(<<"x"," ","y">>, <<"v">>)
H_a == Hdr(<<"a">>, <<"1">>)
H_b == Hdr(<<"b">>, <<"2">>)
H_type == Hdr(S_content_type, V_text_plain)
H_form == Hdr(S_content_disposition, V_form_data)
H_file == Hdr(S_content_disposition, V_file)

\* Header blocks with a line that has no value.
SparseBlocks ==
    {<<H_type, H_empty, H_file>>,
     <<H_form, H_file, H_empty, H_type>>,
     <<H_empty>> \o OuterHeaders(B_inner),
     <<H_type, H_empty, H_bad>>,
     <<H_type, H_empty, H_form, H_a, H_b>>}

SparseTrees == {<<Node_Part(hs, b), P_form(b)>> : hs \in SparseBlocks, b \in Bodies}

\* A header value with a byte that is no ASCII.
V_opaque == <<"f", "\\xE9">>

\* Header blocks with a value that is no text or no media type.
OpaqueBlocks ==
    {<<Hdr(S_content_type, V_opaque)>>,
     <<Hdr(S_content_type, V_opaque), H_file>>,
     <<Hdr(S_content_type, V_not_mime), H_file>>,
     <<Hdr(S_content_disposition, V_opaque)>>,
     <<H_type, Hdr(S_content_disposition, V_opaque)>>}

\* A part after which comes a part with such a block, or a container with
\* a content-disposition that is no text.
OpaqueTrees ==
    {<<P_form(b), Node_Part(hs, b)>> : hs \in OpaqueBlocks, b \in Bodies}
    \cup {<<P_form(b),
            Node_Multipart(<<Hdr(S_content_disposition, V_opaque)>> \o OuterHeaders(B_inner),
                           <<P_plain(b)>>)>> : b \in Bodies}

OriginOf(tree) == IF tree \in SparseTrees THEN "sparse" ELSE "opaque"

\* read_multipart_body on a body whose first part has a header line without
\* a value, or whose last part has a header value that is no text or no
\* media type.
ReadSparse ==
    /\ pc = "idle"
    /\ \E tree \in SparseTrees \cup OpaqueTrees, lt \in {CRLF, LF}, chunk \in ChunkSizes, always \in BOOLEAN :
          Enter([src |-> Wire(DASHDASH \o B_outer, lt, tree),
                 headers |-> OuterHeaders(B_outer),
                 always_use_files |-> always, chunk |-> chunk,
                 origin |-> OriginOf(tree), tree |-> tree, boundary |-> B_outer,
                 lt |-> lt, whole |-> TRUE])
    /\ UNCHANGED <<wtree, wbound, output, fs, nextTmp, streamed, result, objs, created>>

\* Headers of a request with a line that has no value.
SparseHeads ==
    {OuterHeaders(B_outer) \o <<H_empty, H_form>>,
     <<H_a, H_a>> \o OuterHeaders(B_outer) \o <<H_empty>>,
     <<H_empty>> \o OuterHeaders(B_outer),
     OuterHeaders(B_outer) \o <<H_empty, H_bad>>}

\* read_multipart on a stream whose headers have a line without a value.
ReadSparseRequest ==
    /\ pc = "idle"
    /\ \E head \in SparseHeads, b \in Bodies, lt \in {CRLF, LF}, chunk \in ChunkSizes,
          always \in BOOLEAN :
          call' = [src |-> wire_headers(head, CRLF) \o CRLF
                           \o Wire(DASHDASH \o B_outer, lt, <<P_form(b), P_file(b)>>),
                   headers |-> <<>>, always_use_files |-> always, chunk |-> chunk,
                   origin |-> "sparse request", tree |-> <<P_form(b), P_file(b)>>,
                   boundary |-> B_outer, lt |-> lt, whole |-> TRUE, head |-> head]
    /\ pc' = "main"
    /\ pos' = 0
    /\ UNCHANGED <<wtree, wbound, output, stack, fs, nextTmp, streamed, result, objs,
                   created>>

\* Header lines of a part, up to one more than parse_headers has room for.
H_c == Hdr(<<"c">>, <<"3">>)
CountedLines == <<H_form, H_type, H_a, H_b, H_c>>
Lines(n) == SubSeq(CountedLines, 1, n)

\* The headers of a nested container with n header lines.
ContainerLines(n) == OuterHeaders(B_inner) \o SubSeq(<<H_a, H_b, H_c, H_form>>, 1, n - 1)

\* A part or a container with 0 to PartHeaderSlots + 1 header lines, before
\* or after a part with one line.
CountedTrees ==
    {<<Node_Part(Lines(n), b), P_form(b)>> : n \in 0 .. PartHeaderSlots + 1, b \in Bodies}
    \cup {<<P_form(b), Node_Part(Lines(n), b)>> : n \in 0 .. PartHeaderSlots + 1, b \in Bodies}
    \cup {<<P_form(b), Node_Multipart(ContainerLines(n), <<P_plain(b)>>)>> :
              n \in PartHeaderSlots .. PartHeaderSlots + 1, b \in Bodies}

\* read_multipart_body on a body with such a part.
ReadCounted ==
    /\ pc = "idle"
    /\ \E tree \in CountedTrees, lt \in {CRLF, LF}, chunk \in ChunkSizes, always \in BOOLEAN :
          Enter([src |-> Wire(DASHDASH \o B_outer, lt, tree),
                 headers |-> OuterHeaders(B_outer),
                 always_use_files |-> always, chunk |-> chunk,
                 origin |-> "counted", tree |-> tree, boundary |-> B_outer,
                 lt |-> lt, whole |-> TRUE])
    /\ UNCHANGED <<wtree, wbound, output, fs, nextTmp, streamed, result, objs, created>>

Rep(h, n) == [i \in 1 .. n |-> h]

\* n times the bytes of line.
RepBytes(line, n) == [i \in 1 .. n * Len(line) |-> line[((i - 1) % Len(line)) + 1]]

\* The header lines of a request as they are in the stream: the bytes of
\* wire_headers(head, CRLF), with the equal lines written at once.
wire_counted(head) ==
    IF head[1] = H_a
    THEN RepBytes(wire_headers(<<H_a>>, CRLF), Len(head) - 1)
         \o wire_headers(OuterHeaders(B_outer), CRLF)
    ELSE wire_headers(OuterHeaders(B_outer), CRLF)
         \o RepBytes(wire_headers(<<H_a>>, CRLF), Len(head) - 1)

\* Headers of a request with MainHeaderSlots - 1 to MainHeaderSlots + 1
\* lines, the content-type being the last or the first of them.
CountedHeads ==
    {Rep(H_a, n - 1) \o OuterHeaders(B_outer) :
        n \in MainHeaderSlots - 1 .. MainHeaderSlots + 1}
    \cup {OuterHeaders(B_outer) \o Rep(H_a, n - 1) :
              n \in MainHeaderSlots .. MainHeaderSlots + 1}

\* The parts of the body that follows such headers.
CountedBody == <<P_form(<<"x">>), P_file(<<"x">>)>>

\* read_multipart on a stream with such headers, read in one piece.
ReadCountedRequest ==
    /\ pc = "idle"
    /\ \E head \in CountedHeads, lt \in {CRLF, LF}, always \in BOOLEAN :
          call' = [src |-> wire_counted(head) \o CRLF
                           \o Wire(DASHDASH \o B_outer, lt, CountedBody),
                   headers |-> <<>>, always_use_files |-> always, chunk |-> BufCapacity,
                   origin |-> "counted request", tree |-> CountedBody,
                   boundary |-> B_outer, lt |-> lt, whole |-> TRUE, head |-> head]
    /\ pc' = "main"
    /\ pos' = 0
    /\ UNCHANGED <<wtree, wbound, output, stack, fs, nextTmp, streamed, result, objs,
                   created>>

\* The header block of a request, as it is in the stream before the body.
RequestHead(b) == wire_headers(OuterHeaders(b), CRLF) \o CRLF

RequestTrees ==
    {<<P_form(b), P_file(b)>> : b \in Bodies}
    \cup {<<M_mixed(<<P_file(b)>>), P_form(b)>> : b \in Bodies}

Requested(stream, tree, lt, chunk, always) ==
    \E len \in 0 .. Len(stream) :
        call' = [src |-> SubSeq(stream, 1, len), headers |-> <<>>,
                 always_use_files |-> always, chunk |-> chunk,
                 origin |-> "request", tree |-> tree, boundary |-> B_outer,
                 lt |-> lt, whole |-> (len = Len(stream))]

\* read_multipart(&mut stream, always_use_files) on a stream that holds the
\* headers of the request and then the body; the stream may end anywhere.
ReadMultipart ==
    /\ pc = "idle"
    /\ \E tree \in RequestTrees, lt \in {CRLF, LF}, chunk \in ChunkSizes,
          always \in BOOLEAN :
          Requested(RequestHead(B_outer) \o Wire(DASHDASH \o B_outer, lt, tree),
                    tree, lt, chunk, always)
    /\ pc' = "main"
    /\ pos' = 0
    /\ UNCHANGED <<wtree, wbound, output, stack, fs, nextTmp, streamed, result, objs,
                   created>>

\* "Parse the headers", then inner on the same reader.
MainParsed(hs, at) ==
    IF ~hs.ok THEN Fail(hs.err, fs, <<>>, at)
    ELSE /\ pc' = "parsing"
         /\ stack' = <<Frame(hs.val)>>
         /\ pos' = at
         /\ UNCHANGED <<fs, result>>

MainBlock(r) ==
    IF ~r.found THEN Fail("EofInMainHeaders", fs, <<>>, r.next)
    ELSE MainParsed(parse_main_headers(r.out \o CRLF \o CRLF), r.next)

\* The scan for the CRLF CRLF that ends the headers of the request.
MainHeaders ==
    /\ pc = "main"
    /\ MainBlock(stream_until_token(call.src, CRLF \o CRLF, 0))
    /\ UNCHANGED <<wtree, wbound, output, call, nextTmp, streamed, objs, created>>

\* The bytes of a leaf: its body, or what is in its file.
Content(n) == IF n.kind = "Part" THEN n.body ELSE fs.files[n.path]

RECURSIVE Outcomes(_)

\* What a caller sees of a node: its kind and its headers, the bytes of a
\* leaf, the size of a file, the nodes of a container.
OutcomeOf(n) ==
    IF n.kind = "Multipart"
    THEN [kind |-> n.kind, headers |-> n.headers, nodes |-> Outcomes(n.nodes)]
    ELSE IF n.kind = "File"
    THEN [kind |-> n.kind, headers |-> n.headers, body |-> Content(n), size |-> n.size]
    ELSE [kind |-> n.kind, headers |-> n.headers, body |-> Content(n)]

Outcomes(nodes) == [i \in 1 .. Len(nodes) |-> OutcomeOf(nodes[i])]

\* What a caller sees of a Result: the tree, or the kind of the error.
Outcome(r) ==
    IF r.ok THEN [ok |-> TRUE, nodes |-> Outcomes(r.nodes)] ELSE [ok |-> FALSE, err |-> r.err]

\* The nodes a Result holds.
NodesOf(r) == IF r.ok THEN r.nodes ELSE <<>>

\* read_multipart_body on the bytes after the header block found at r.
BodyOf(r, hs) ==
    /\ r.found /\ hs.ok
    /\ Enter([src |-> SubSeq(call.src, r.next + 1, Len(call.src)), headers |-> hs.val,
              always_use_files |-> call.always_use_files, chunk |-> call.chunk,
              origin |-> "body of request", tree |-> call.tree,
              boundary |-> call.boundary, lt |-> call.lt, whole |-> call.whole,
              earlier |-> Outcome(result)])

\* After read_multipart has returned, the nodes it gave are dropped and the
\* same reads are made by read_multipart_body: on the body of the request,
\* with the headers made of its header block.
ReadRequestBody ==
    /\ pc = "returned" /\ call.origin \in {"request", "sparse request"}
    /\ BodyOf(stream_until_token(call.src, CRLF \o CRLF, 0),
              parse_main_headers(stream_until_token(call.src, CRLF \o CRLF, 0).out
                                 \o CRLF \o CRLF))
    /\ fs' = drop_nodes(fs, NodesOf(result))
    /\ UNCHANGED <<wtree, wbound, output, nextTmp, streamed, result, objs, created>>

Init ==
    /\ pc = "idle"
    /\ wtree = <<>>
    /\ wbound = <<>>
    /\ output = NoOutput
    /\ call = NoCall
    /\ pos = 0
    /\ stack = <<>>
    /\ fs = EmptyFs
    /\ nextTmp = 0
    /\ streamed = <<>>
    /\ result = NoResult
    /\ objs = <<>>
    /\ created = {}

Next ==
    \/ WriteMultipart
    \/ ReadWritten
    \/ ReadReceived
    \/ ReadVaried
    \/ ReadSparse
    \/ ReadMultipart
    \/ ReadSparseRequest
    \/ ReadCounted
    \/ ReadCountedRequest
    \/ ReadRequestBody
    \/ MainHeaders
    \/ InnerBoundary
    \/ InnerSniff
    \/ InnerClose
    \/ InnerPartHeaders
    \/ InnerBadHeader
    \/ InnerNested
    \/ InnerFile
    \/ InnerPart

Spec == Init /\ [][Next]_vars

----------------------------------------------------------------------------
(* The parser by itself: read_multipart_body has been entered, on a body   *)
(* that may end anywhere, and inner runs.                                  *)

LiveTrees == DeepTrees \cup LeafTrees

\* The state Enter leaves for the call c.
Entered(c) ==
    /\ call = c
    /\ stack = <<Frame(c.headers)>>

EnteredOn(body, tree, lt, chunk, always) ==
    \E len \in 0 .. Len(body) :
        Entered([src |-> SubSeq(body, 1, len), headers |-> OuterHeaders(B_outer),
                 always_use_files |-> always, chunk |-> chunk,
                 origin |-> "received", tree |-> tree, boundary |-> B_outer,
                 lt |-> lt, whole |-> (len = Len(body))])

InitLive ==
    /\ pc = "parsing"
    /\ wtree = <<>>
    /\ wbound = <<>>
    /\ output = NoOutput
    /\ \E tree \in LiveTrees, lt \in {CRLF, LF}, chunk \in ChunkSizes, always \in BOOLEAN :
          EnteredOn(Wire(DASHDASH \o B_outer, lt, tree), tree, lt, chunk, always)
    /\ pos = 0
    /\ fs = EmptyFs
    /\ nextTmp = 0
    /\ streamed = <<>>
    /\ result = NoResult
    /\ objs = <<>>
    /\ created = {}

NextLive ==
    \/ InnerBoundary
    \/ InnerSniff
    \/ InnerClose
    \/ InnerPartHeaders
    \/ InnerBadHeader
    \/ InnerNested
    \/ InnerFile
    \/ InnerPart

\* A step of inner can be taken exactly while the call has not returned:
\* every phase of a frame has a branch for each input, and each branch either
\* moves on or returns.
NotReturned == pc = "parsing"

\* The code of inner runs to its end: a step that can be taken is taken.
\* This is weak fairness of NextLive, with NotReturned for ENABLED <<NextLive>>_vars.
Fairness == []<>(~NotReturned) \/ []<><<NextLive>>_vars

SpecLive == InitLive /\ [][NextLive]_vars /\ Fairness

----------------------------------------------------------------------------
(* The life cycle of FilePart values: made by new or create, changed       *)
(* through the public fields, cloned, relinquished and dropped.  An entry  *)
(* of objs is [fp, alive] with the history fields made and relinquished.   *)

MaxObjs == 2
MaxTemp == 1

\* The caller's own directory and file.
UserDir == 0
UserPath == [dir |-> UserDir, name |-> "upload"]
UserFs == [dirs |-> {UserDir}, files |-> (UserPath :> <<"u">>)]

TempPath(d) == [dir |-> d, name |-> "nonce"]

Obj(fp, made, relinquished) ==
    [fp |-> fp, alive |-> TRUE, made |-> made, relinquished |-> relinquished]

Alive(i) == i \in 1 .. Len(objs) /\ objs[i].alive

Idle == UNCHANGED <<pc, wtree, wbound, output, call, pos, stack, streamed, result>>

\* FilePart::new(headers, path) on the caller's file.
FpNew ==
    /\ pc = "files" /\ Len(objs) < MaxObjs
    /\ objs' = Append(objs, Obj(FilePart_new(<<>>, UserPath), "new", FALSE))
    /\ UNCHANGED <<fs, nextTmp, created>>
    /\ Idle

\* FilePart::create(headers): a fresh temporary directory, and a path in it.
FpCreate ==
    /\ pc = "files" /\ Len(objs) < MaxObjs /\ nextTmp < MaxTemp
    /\ nextTmp' = nextTmp + 1
    /\ fs' = [fs EXCEPT !.dirs = fs.dirs \cup {nextTmp + 1}]
    /\ objs' = Append(objs, Obj(FilePart_create(<<>>, nextTmp + 1), "create", FALSE))
    /\ UNCHANGED created
    /\ Idle

\* File::create(filepart.path.clone())
FpFileCreate ==
    /\ pc = "files"
    /\ \E i \in 1 .. Len(objs) :
          /\ Alive(i)
          /\ objs[i].fp.path.dir \in fs.dirs
          /\ ~FileExists(fs, objs[i].fp.path)
          /\ fs' = File_create(fs, objs[i].fp.path)
          /\ created' = created \cup {objs[i].fp.path}
    /\ UNCHANGED <<objs, nextTmp>>
    /\ Idle

\* filepart.do_not_delete_on_drop()
FpRelinquish ==
    /\ pc = "files"
    /\ \E i \in 1 .. Len(objs) :
          /\ Alive(i)
          /\ objs' = [objs EXCEPT ![i].fp = do_not_delete_on_drop(objs[i].fp),
                                  ![i].relinquished = TRUE]
    /\ UNCHANGED <<fs, nextTmp, created>>
    /\ Idle

\* #[derive(Clone)]: the clone has the fields of the original.
clone_FilePart(fp) == fp

FpClone ==
    /\ pc = "files" /\ Len(objs) < MaxObjs
    /\ \E i \in 1 .. Len(objs) :
          /\ Alive(i)
          /\ objs' = Append(objs, Obj(clone_FilePart(objs[i].fp), "clone",
                                      objs[i].relinquished))
    /\ UNCHANGED <<fs, nextTmp, created>>
    /\ Idle

\* The value goes out of scope: Drop for FilePart.
FpDrop ==
    /\ pc = "files"
    /\ \E i \in 1 .. Len(objs) :
          /\ Alive(i)
          /\ fs' = drop_FilePart(fs, objs[i].fp)
          /\ objs' = [objs EXCEPT ![i].alive = FALSE]
    /\ UNCHANGED <<nextTmp, created>>
    /\ Idle

\* filepart.path = ...: the public field is set to another path.
FpSetPath ==
    /\ pc = "files"
    /\ \E i \in 1 .. Len(objs), p \in {UserPath} \cup {TempPath(d) : d \in 1 .. nextTmp} :
          /\ Alive(i)
          /\ p # objs[i].fp.path
          /\ objs' = [objs EXCEPT ![i].fp.path = p]
    /\ UNCHANGED <<fs, nextTmp, created>>
    /\ Idle

\* filepart.headers = ...; filepart.size = ...: the other public fields.
FpSetMeta ==
    /\ pc = "files"
    /\ \E i \in 1 .. Len(objs) :
          /\ Alive(i)
          /\ objs[i].fp.size = <<>>
          /\ objs' = [objs EXCEPT ![i].fp.headers = <<Hdr(S_content_type, V_text_plain)>>,
                                  ![i].fp.size = <<0>>]
    /\ UNCHANGED <<fs, nextTmp, created>>
    /\ Idle

InitFiles ==
    /\ pc = "files"
    /\ wtree = <<>>
    /\ wbound = <<>>
    /\ output = NoOutput
    /\ call = NoCall
    /\ pos = 0
    /\ stack = <<>>
    /\ fs = UserFs
    /\ nextTmp = 0
    /\ streamed = <<>>
    /\ result = NoResult
    /\ objs = <<>>
    /\ created = {}

NextFiles ==
    \/ FpNew
    \/ FpCreate
    \/ FpFileCreate
    \/ FpRelinquish
    \/ FpClone
    \/ FpDrop
    \/ FpSetPath
    \/ FpSetMeta

SpecFiles == InitFiles /\ [][NextFiles]_vars

----------------------------------------------------------------------------
(* Single calls of the functions that keep no state: the arguments are     *)
(* drawn at the start, the call returns in one step.                       *)

\* The text of a parameter list, and its boundary parameter as an Option.
ParamList(text, boundary) == [text |-> text, boundary |-> boundary]

P_q == <<";"," ","q","=","1">>

ParamLists ==
    {ParamList(<<>>, <<>>),
     ParamList(P_q, <<>>),
     ParamList(<<";"," ">> \o S_boundary \o <<"=","B">>, <<B_outer>>),
     ParamList(<<";">> \o S_boundary \o <<"=","B">>, <<B_outer>>),
     ParamList(<<";"," ","B","o","u","n","d","a","r","y","=","B">>, <<B_outer>>),
     ParamList(<<";"," ">> \o S_boundary \o <<"=","\"","b"," ","0","\"">>,
               <<(<<"b"," ","0">>)>>),
     ParamList(P_q \o <<";"," ">> \o S_boundary \o <<"=","b","0">>, <<(<<"b","0">>)>>)}

TopLevels == {S_multipart, <<"M">> \o Tail(S_multipart), <<"t","e","x","t">>}

Subtypes == {<<"m","i","x","e","d">>, <<"x">>}

\* The header collections a content-type value is found in.
Around(ct) ==
    {<<Hdr(S_content_type, ct)>>,
     <<Hdr(S_content_disposition, V_form_data), Hdr(S_content_type, ct)>>,
     <<Hdr(S_content_type, ct), Hdr(S_content_disposition, V_file)>>}

BoundaryKind(top, ps) ==
    IF Lower(top) # S_multipart THEN "other"
    ELSE IF ps.boundary = <<>> THEN "noparam" ELSE "boundary"

BoundaryCall(headers, kind, param) ==
    [op |-> "get_multipart_boundary", headers |-> headers, kind |-> kind,
     param |-> param]

\* get_multipart_boundary(&headers) on headers without a content-type, and
\* on headers with a content-type made of a type, a subtype and parameters.
BoundaryCalls ==
    {BoundaryCall(hs, "absent", <<>>) :
        hs \in {<<>>, <<Hdr(S_content_disposition, V_form_data)>>}}
    \cup UNION {UNION {UNION {
            {BoundaryCall(hs, BoundaryKind(top, ps), ps.boundary) :
                hs \in Around(top \o <<"/">> \o sub \o ps.text)} :
            ps \in ParamLists} : sub \in Subtypes} : top \in TopLevels}

\* A File node of the caller's file.
F_upload == FilePart_new(<<Hdr(S_content_disposition, V_file)>>, UserPath)

\* A container whose content-type is not multipart.
M_plain == Node_Multipart(<<Hdr(S_content_type, V_text_plain)>>, <<>>)

\* The node sequences given to the writers.
WriterTrees ==
    PartTrees \cup NestedTrees
    \cup {<<F_upload>>, <<F_upload, P_plain(<<>>)>>, <<M_files(<<F_upload>>)>>,
          <<P_form(<<"x">>), M_plain>>}

\* The caller's file with some content, or no file.
WriterFiles == {<<>>} \cup {UserPath :> b : b \in Bodies}

\* op(&mut stream, boundary, &nodes) on a stream that holds stream already.
WriterCalls ==
    [op : {"write_multipart", "write_multipart_chunked"}, stream : {<<>>, <<"z">>},
     boundary : Boundaries, nodes : WriterTrees, files : WriterFiles]

\* A filename parameter, or two, and the name a reader of the header takes
\* from them, as an Option.
FilenameParam(text, name) == [text |-> text, name |-> name]

N_image == <<"i",".","g">>

FilenameParams ==
    {FilenameParam(<<>>, <<>>),
     FilenameParam(<<";"," ","f","i","l","e","n","a","m","e","*","=","u","'","'","e">>, <<>>),
     FilenameParam(<<";"," ">> \o S_filename_eq \o <<"\"">> \o N_image \o <<"\"">>,
                   <<N_image>>),
     FilenameParam(<<";"," ">> \o S_filename_eq \o <<"f">>, <<(<<"f">>)>>),
     FilenameParam(<<";"," ">> \o S_filename_ext \o <<"e">>, <<(<<"e">>)>>),
     FilenameParam(<<";"," ">> \o S_filename_ext \o <<"e",";"," ">> \o S_filename_eq
                       \o <<"f">>,
                   <<(<<"f">>)>>),
     FilenameParam(<<";"," ">> \o S_filename_eq \o <<"f",";"," ">> \o S_filename_ext
                       \o <<"e">>,
                   <<(<<"f">>)>>)}

\* The parameters before and after the filename parameter.
OtherParams == {<<>>, <<";"," ","n","a","m","e","=","a">>}

Dispositions == {<<"f","o","r","m","-","d","a","t","a">>, S_attachment}

FilenameCall(headers, name, last) ==
    [op |-> "filename", filepart |-> FilePart_new(headers, UserPath), name |-> name,
     last |-> last]

\* filepart.filename() on a FilePart without content-disposition, and on
\* one whose content-disposition is made of a type and parameters.
FilenameCalls ==
    {FilenameCall(hs, <<>>, TRUE) : hs \in {<<>>, <<Hdr(S_content_type, V_text_plain)>>}}
    \cup UNION {UNION {UNION {
            {FilenameCall(<<Hdr(S_content_disposition, d \o pre \o fp.text \o post)>>,
                          fp.name, post = <<>>) :
                post \in OtherParams} :
            pre \in OtherParams} : fp \in FilenameParams} : d \in Dispositions}

\* The text of a nonce: base64 text with one or two bytes that stand out.
NonceBytes == {"A", "+", "/", "="}

Nonces ==
    {[i \in 1 .. NonceLen |-> IF i = p THEN a ELSE IF i = NonceLen + 1 - p THEN b ELSE "A"] :
        p \in 1 .. NonceLen, a \in NonceBytes, b \in {"A", "/"}}

NonceCalls == {[op |-> "generate_boundary", nonce |-> n] : n \in Nonces}

UnitCalls == BoundaryCalls \cup WriterCalls \cup FilenameCalls \cup NonceCalls

CallFilename ==
    /\ pc = "unit" /\ call.op = "filename"
    /\ result' = filename(call.filepart)
    /\ pc' = "returned"
    /\ UNCHANGED <<wtree, wbound, output, call, pos, stack, fs, nextTmp, streamed,
                   objs, created>>

CallGenerateBoundary ==
    /\ pc = "unit" /\ call.op = "generate_boundary"
    /\ result' = Ok(generate_boundary(call.nonce))
    /\ pc' = "returned"
    /\ UNCHANGED <<wtree, wbound, output, call, pos, stack, fs, nextTmp, streamed,
                   objs, created>>


CallWriteMultipart ==
    /\ pc = "unit" /\ call.op = "write_multipart"
    /\ result' = write_multipart(call.stream, call.boundary, call.nodes, call.files)
    /\ pc' = "returned"
    /\ UNCHANGED <<wtree, wbound, output, call, pos, stack, fs, nextTmp, streamed,
                   objs, created>>

CallWriteMultipartChunked ==
    /\ pc = "unit" /\ call.op = "write_multipart_chunked"
    /\ result' = write_multipart_chunked(call.stream, call.boundary, call.nodes,
                                         call.files)
    /\ pc' = "returned"
    /\ UNCHANGED <<wtree, wbound, output, call, pos, stack, fs, nextTmp, streamed,
                   objs, created>>


CallGetMultipartBoundary ==
    /\ pc = "unit" /\ call.op = "get_multipart_boundary"
    /\ result' = get_multipart_boundary(call.headers)
    /\ pc' = "returned"
    /\ UNCHANGED <<wtree, wbound, output, call, pos, stack, fs, nextTmp, streamed,
                   objs, created>>

InitUnits ==
    /\ pc = "unit"
    /\ wtree = <<>>
    /\ wbound = <<>>
    /\ output = NoOutput
    /\ call \in UnitCalls
    /\ pos = 0
    /\ stack = <<>>
    /\ fs = EmptyFs
    /\ nextTmp = 0
    /\ streamed = <<>>
    /\ result = NoResult
    /\ objs = <<>>
    /\ created = {}

NextUnits ==
    \/ CallGetMultipartBoundary
    \/ CallWriteMultipart
    \/ CallWriteMultipartChunked
    \/ CallFilename
    \/ CallGenerateBoundary

SpecUnits == InitUnits /\ [][NextUnits]_vars

----------------------------------------------------------------------------
(* Properties of the parser and the writer                                 *)

Done == pc = "returned"

RECURSIVE NodesEq(_, _)

NodeEq(a, b) ==
    /\ a.kind = b.kind
    /\ HeaderMapEq(a.headers, b.headers)
    /\ IF a.kind = "Part" THEN a.body = b.body
       ELSE IF a.kind = "Multipart" THEN NodesEq(a.nodes, b.nodes)
       ELSE a.path = b.path

\* Same length, same order, equal nodes.
NodesEq(a, b) ==
    /\ Len(a) = Len(b)
    /\ \A i \in 1 .. Len(a) : NodeEq(a[i], b[i])

RECURSIVE AllNodes(_)

\* The nodes of a sequence at every nesting level.
AllNodes(nodes) ==
    {nodes[i] : i \in 1 .. Len(nodes)}
    \cup UNION {AllNodes(nodes[i].nodes) :
                   i \in {j \in 1 .. Len(nodes) : nodes[j].kind = "Multipart"}}

\* The nodes the parser has made so far, or has returned.
Parsed ==
    IF pc = "parsing" THEN AllNodes(live_nodes(stack))
    ELSE IF Done /\ result.ok THEN AllNodes(result.nodes)
    ELSE {}

RECURSIVE Shape(_)

\* The structure of a node sequence: per node its headers and, for a
\* container, the structure of its children.
Shape(nodes) ==
    [i \in 1 .. Len(nodes) |->
        IF nodes[i].kind = "Multipart"
        THEN [headers |-> nodes[i].headers, nodes |-> Shape(nodes[i].nodes)]
        ELSE [headers |-> nodes[i].headers]]

OnlyParts(nodes) == \A i \in 1 .. Len(nodes) : nodes[i].kind = "Part"

HasNested(nodes) == \E i \in 1 .. Len(nodes) : nodes[i].kind = "Multipart"

\* The source is a byte vector, read in one piece.
FromMemory == call.chunk = BufCapacity

\* C1: a sequence of Part nodes written by write_multipart and parsed from
\* the produced bytes by read_multipart_body (always_use_files = false)
\* comes back Ok and equal: same length, order, headers and bodies.
C1_RoundTripParts ==
    (/\ Done /\ call.origin = "written" /\ FromMemory
     /\ ~call.always_use_files /\ OnlyParts(call.tree))
    => (result.ok /\ NodesEq(result.nodes, call.tree))

\* C2: a Multipart node holding two leaf nodes, written and parsed back,
\* comes back as a Multipart node with the same two children in order.
C2_NestedRoundTrip ==
    (/\ Done /\ call.origin = "written" /\ FromMemory
     /\ ~call.always_use_files
     /\ Len(call.tree) = 1 /\ call.tree[1].kind = "Multipart"
     /\ Len(call.tree[1].nodes) = 2 /\ OnlyParts(call.tree[1].nodes))
    => (result.ok /\ NodesEq(result.nodes, call.tree))

\* The reader stands right after the outermost boundary token, and the
\* token is followed by "--".
AtOuterClose ==
    /\ pos >= Len(call.boundary) + 2
    /\ MatchAt(call.src, DASHDASH \o call.boundary \o DASHDASH,
               pos - (Len(call.boundary) + 2))

\* C3: the parser returns Ok only after it has read the outermost
\* container's boundary token immediately followed by "--".
C3_OkOnlyAtOuterClose == (Done /\ result.ok) => AtOuterClose

\* C4: for a body with a nested container, the parsed tree has, at every
\* level, the parts of the input in number and order: the parts after the
\* nested container are parsed too.
C4_TreeMirrorsInput ==
    (/\ Done /\ result.ok /\ call.origin = "received" /\ call.whole
     /\ HasNested(call.tree))
    => Shape(result.nodes) = Shape(call.tree)

\* C5: when the parser returns an error, it returns no nodes and every
\* temporary file and directory made during the call is gone.
C5_ErrorCleansUp ==
    (Done /\ ~result.ok)
    => (/\ "nodes" \notin DOMAIN result
        /\ fs.dirs = {}
        /\ DOMAIN fs.files = {})

\* An error after two file parts have been streamed, inside a nested
\* container.
C5_Witness ==
    /\ Done /\ ~result.ok /\ result.err = "EofInFile"
    /\ nextTmp >= 3 /\ Len(streamed) >= 3

FileNodes == {n \in Parsed : n.kind = "File"}

StreamOf(n) == streamed[CHOOSE i \in 1 .. Len(streamed) : streamed[i].dir = n.path.dir]

\* The content of the file is the bytes from the end of the part's header
\* block up to the first occurrence of terminator + boundary.
Holds_body(n, st) ==
    /\ FindFrom(call.src, st.token, st.start) = st.start + n.size[1]
    /\ fs.files[n.path] = SubSeq(call.src, st.start + 1, st.start + n.size[1])

\* C8: the size of every File node the parser makes is set and is the
\* number of bytes in its file, which are the bytes between the part's
\* header block and the next terminator + boundary.
C8_FileSize ==
    \A n \in FileNodes :
        /\ n.size # <<>>
        /\ FileExists(fs, n.path)
        /\ n.size[1] = Len(fs.files[n.path])
        /\ Holds_body(n, StreamOf(n))

C8_Witness ==
    /\ Done /\ result.ok
    /\ \E n \in FileNodes : n.size[1] > 0
    /\ Cardinality(FileNodes) >= 2

Cd(n) == Get(n.headers, S_content_disposition)

HasFilenameParam(n) == Cd(n) # <<>> /\ Contains(Cd(n)[1], S_filename_eq)

NeitherWord(n) ==
    Cd(n) = <<>> \/ (~Contains(Cd(n)[1], S_attachment) /\ ~Contains(Cd(n)[1], S_filename))

\* The content-type of the part is of top-level type multipart.
IsContainer(n) == is_nested(n.headers).ok /\ is_nested(n.headers).val

\* C9 as claimed: with always_use_files = false, every part whose
\* content-disposition contains "filename=" becomes a File node and every
\* part with neither "attachment" nor "filename" becomes a Part node.
C9_Original ==
    ~call.always_use_files =>
        \A n \in Parsed :
            /\ HasFilenameParam(n) => n.kind = "File"
            /\ NeitherWord(n) => n.kind = "Part"

\* C9 amended: with always_use_files = false, every part that is not a
\* nested container (content-type absent or not multipart) becomes a File
\* node when its content-disposition contains "filename=", and a Part node
\* when it contains neither "attachment" nor "filename".
C9_Classification ==
    ~call.always_use_files =>
        \A n \in Parsed :
            ~IsContainer(n) =>
                /\ HasFilenameParam(n) => n.kind = "File"
                /\ NeitherWord(n) => n.kind = "Part"

C9_Witness ==
    /\ Done /\ result.ok /\ ~call.always_use_files
    /\ \E n \in Parsed : ~IsContainer(n) /\ HasFilenameParam(n) /\ n.kind = "File"
    /\ \E n \in Parsed : ~IsContainer(n) /\ NeitherWord(n) /\ n.kind = "Part"

\* C10: with always_use_files = true the parser makes no Part node at any
\* nesting level: every leaf is a File node.
C10_AlwaysFiles ==
    call.always_use_files => \A n \in Parsed : n.kind \in {"File", "Multipart"}

\* A part without content-disposition, inside a nested container, has
\* become a File node.
C10_Witness ==
    /\ Done /\ result.ok /\ call.always_use_files
    /\ \E m \in Parsed :
          /\ m.kind = "Multipart"
          /\ \E n \in AllNodes(m.nodes) : n.kind = "File" /\ Cd(n) = <<>>

----------------------------------------------------------------------------
(* Properties of FilePart                                                  *)

Dropped(i) == objs[i].alive /\ ~objs'[i].alive

\* The file at the path is gone and the rest of the files are as they were;
\* the directory is gone if it is left empty.
Removed(fp, f, g) ==
    /\ DOMAIN g.files = (DOMAIN f.files) \ {fp.path}
    /\ \A p \in DOMAIN g.files : g.files[p] = f.files[p]
    /\ g.dirs = IF \A p \in DOMAIN g.files : p.dir # fp.tempdir[1]
                THEN f.dirs \ {fp.tempdir[1]} ELSE f.dirs

\* C6: dropping a FilePart that owns its storage removes the file and then
\* the temporary directory, a removal that fails being ignored; dropping
\* one that does not own storage removes nothing.
C6_Drop ==
    [][\A i \in 1 .. Len(objs) :
          Dropped(i) =>
              IF objs[i].fp.tempdir # <<>> THEN Removed(objs[i].fp, fs, fs')
              ELSE fs' = fs]_vars

\* A FilePart made by create, whose file was made, has been dropped while it
\* owned its storage: the file and the directory are gone.  Another one, made
\* by new, has been dropped and the caller's file is still there.
C6_Witness ==
    /\ \E i \in 1 .. Len(objs) :
          /\ ~objs[i].alive /\ objs[i].made = "create" /\ objs[i].fp.tempdir # <<>>
          /\ objs[i].fp.path \in created
          /\ ~FileExists(fs, objs[i].fp.path)
          /\ objs[i].fp.tempdir[1] \notin fs.dirs
    /\ \E i \in 1 .. Len(objs) :
          /\ ~objs[i].alive /\ objs[i].made = "new"
          /\ FileExists(fs, objs[i].fp.path)

\* C7: once do_not_delete_on_drop has been called on a FilePart, it does
\* not own storage in any later state, whatever is done to it, and its drop
\* and the drop of a clone made afterwards remove nothing.
C7_Relinquished ==
    [][\A i \in 1 .. Len(objs') :
          objs'[i].relinquished =>
              /\ objs'[i].fp.tempdir = <<>>
              /\ (i <= Len(objs) /\ objs[i].relinquished /\ Dropped(i)) => fs' = fs]_vars

\* A relinquished FilePart made by create, and a clone made after that, have
\* both been dropped, and the file is still in its temporary directory.
C7_Witness ==
    \E i, j \in 1 .. Len(objs) :
        /\ objs[i].made = "create" /\ objs[i].relinquished /\ ~objs[i].alive
        /\ objs[j].made = "clone" /\ objs[j].relinquished /\ ~objs[j].alive
        /\ objs[i].fp.path = objs[j].fp.path
        /\ objs[i].fp.path.dir # UserDir
        /\ FileExists(fs, objs[i].fp.path)

----------------------------------------------------------------------------
(* Properties of the line terminator and of truncated bodies               *)

RECURSIVE Mirrors(_, _)

\* The node has the headers and the content of the part it was made of; the
\* content of a File node is in its file.
MirrorsNode(n, t) ==
    /\ n.headers = t.headers
    /\ IF t.kind = "Multipart" THEN n.kind = "Multipart" /\ Mirrors(n.nodes, t.nodes)
       ELSE IF n.kind = "Part" THEN n.body = t.body
       ELSE /\ n.kind = "File"
            /\ FileExists(fs, n.path)
            /\ fs.files[n.path] = t.body

Mirrors(nodes, tree) ==
    /\ Len(nodes) = Len(tree)
    /\ \A i \in 1 .. Len(tree) : MirrorsNode(nodes[i], tree[i])

RECURSIVE NestedLast(_)

\* A container is the last part of the sequence it is in.
NestedLast(tree) ==
    \A i \in 1 .. Len(tree) :
        tree[i].kind = "Multipart" => (i = Len(tree) /\ NestedLast(tree[i].nodes))

\* Every part has a header, and its content-type, if any, is a media type.
Headed(tree) ==
    \A n \in AllNodes(tree) : n.headers # <<>> /\ is_nested(n.headers).ok

\* A body received whole, of parts the parser reads.
WellFormed ==
    /\ call.origin = "received" /\ call.whole
    /\ call.tree # <<>> /\ Headed(call.tree) /\ NestedLast(call.tree)

\* Such a body, read in one piece.
Regular == WellFormed /\ FromMemory

\* The activation records that have sniffed their line terminator.
Sniffers == {i \in 1 .. Len(stack) : stack[i].phase \in {"loop", "body"}}

RECURSIVE CutsIn(_, _, _, _, _, _)

\* The kind of a leaf: "file" or "part".
LeafKind(n) == classify(n.headers, call.always_use_files)

\* The content of the part starts at offset off and is clen bytes long; it
\* is followed by the line terminator and the delimiter.
CutsContent(what, delim, lt, n, off, clen) ==
    IF n.kind = "Multipart"
    THEN CutsIn(what, get_multipart_boundary(n.headers).val, lt, n.nodes, off, TRUE)
    ELSE IF Classified(LeafKind(n), what)
    THEN off .. off + clen + Len(lt) + Len(delim) - 1
    ELSE {}

\* The header block of the first part starts at offset start and is hlen
\* bytes long, the blank line included.
CutsPart(what, delim, lt, nodes, start, hlen) ==
    (IF what = "headers" THEN start .. start + hlen - 1 ELSE {})
    \cup CutsContent(what, delim, lt, Head(nodes), start + hlen,
                     Len(WireContent(Head(nodes), lt)))
    \cup CutsIn(what, delim, lt, Tail(nodes),
                start + hlen + Len(WireContent(Head(nodes), lt)) + Len(lt), FALSE)

\* The lengths at which the stream ends at the milestone what: in a header
\* block, after its boundary line ("headers"); before the end of the first
\* boundary token of a container ("first"); in the body of a file part
\* ("file") or of an in-memory part ("part"), before the end of the
\* delimiter that follows it.  The parts start at offset off; first tells
\* that they are the first of their container.
CutsIn(what, delim, lt, nodes, off, first) ==
    (IF first /\ what = "first" THEN off .. off + Len(delim) - 1 ELSE {})
    \cup IF nodes = <<>> THEN {}
         ELSE CutsPart(what, delim, lt, nodes, off + Len(delim) + Len(lt),
                       Len(wire_headers(Head(nodes).headers, lt)) + Len(lt))

\* The length of what is in the stream before the body.
HeadLen == IF call.origin = "request" THEN Len(RequestHead(call.boundary)) ELSE 0

\* The stream was made by a sender and ends at the milestone what.
CutAt(what) ==
    /\ call.origin \in {"received", "request"}
    /\ Len(call.src) \in CutsIn(what, DASHDASH \o call.boundary, call.lt, call.tree,
                                HeadLen, TRUE)

\* The source ends inside the header block of a part.
CutInHeaders == CutAt("headers")

\* C12: for a body that ends after a boundary line and before the double
\* terminator that closes that part's header block, parsing fails with
\* EofInPartHeaders and with no other outcome.
C12_EofInPartHeaders ==
    (Done /\ CutInHeaders /\ FromMemory)
    => (~result.ok /\ result.err = "EofInPartHeaders")

\* The stream of a request ends before the CRLF CRLF of its headers.
CutInMain == call.origin = "request" /\ Len(call.src) < HeadLen

Failed(err) == ~result.ok /\ result.err = err

\* C13: a stream that ends early is reported by the milestone at which it
\* ends: EofInMainHeaders before the end of the headers of the request,
\* EofBeforeFirstBoundary before the first boundary token, EofInFile in the
\* body of a file part, EofInPart in the body of an in-memory part.
C13_EofByMilestone ==
    (Done /\ FromMemory)
    => /\ CutInMain => Failed("EofInMainHeaders")
       /\ CutAt("first") => Failed("EofBeforeFirstBoundary")
       /\ CutAt("file") => Failed("EofInFile")
       /\ CutAt("part") => Failed("EofInPart")

----------------------------------------------------------------------------
(* Properties of single calls                                              *)

Returned(op) == pc = "returned" /\ call.op = op

\* C14: get_multipart_boundary gives NoRequestContentType without a
\* content-type header, NotMultipart for a content-type whose top-level
\* type is not multipart, BoundaryNotSpecified for a multipart content-type
\* without a boundary parameter, and otherwise "--" followed by the value
\* of the boundary parameter.
C14_Boundary ==
    Returned("get_multipart_boundary")
    => /\ call.kind = "absent" => Failed("NoRequestContentType")
       /\ call.kind = "other" => Failed("NotMultipart")
       /\ call.kind = "noparam" => Failed("BoundaryNotSpecified")
       /\ call.kind = "boundary"
          => (result.ok /\ result.val = DASHDASH \o call.param[1])

\* The boundary of a quoted parameter that follows another parameter, from
\* headers in which the content-type is not the first header.
C14_Witness ==
    /\ Returned("get_multipart_boundary") /\ result.ok
    /\ Len(call.headers) = 2 /\ call.headers[2].name = S_content_type
    /\ Contains(call.headers[2].value, <<"\"">>)
    /\ result.val = <<"-","-","b"," ","0">>

\* The bytes the call has appended to the stream.
Appended == SubSeq(result.stream, Len(call.stream) + 1, Len(result.stream))

\* The call has left what was in the stream as it was.
Extends ==
    /\ Len(result.stream) >= Len(call.stream)
    /\ SubSeq(result.stream, 1, Len(call.stream)) = call.stream

\* C15: when write_multipart returns Ok(n), n is the number of bytes the
\* call has appended to the stream, writes of recursive calls and bytes
\* copied from files included, and the output ends with "--" boundary "--".
C15_WriterCount ==
    (Returned("write_multipart") /\ result.ok)
    => /\ Extends
       /\ result.count = Len(Appended)
       /\ MatchAt(Appended, DASHDASH \o call.boundary \o DASHDASH,
                  Len(Appended) - (Len(call.boundary) + 4))

\* A container with a file in it has been written after what the stream
\* held, and the count is that of the appended bytes, the file's included.
C15_Witness ==
    /\ Returned("write_multipart") /\ result.ok
    /\ call.stream # <<>> /\ call.nodes = <<M_files(<<F_upload>>)>>
    /\ call.files[UserPath] # <<>>
    /\ result.count = Len(result.stream) - 1

\* The value of the hexadecimal digits, or -1 if one of them is none.
RECURSIVE HexValue(_, _)
HexValue(digits, acc) ==
    IF digits = <<>> THEN acc
    ELSE IF \A d \in 1 .. 16 : HexDigits[d] # Head(digits) THEN -1
    ELSE HexValue(Tail(digits),
                  16 * acc + (CHOOSE d \in 0 .. 15 : HexDigits[d + 1] = Head(digits)))

\* The length the chunk at offset i declares: the value of the digits
\* before the first CRLF, or -1.
ChunkLen(bytes, i) ==
    IF FindFrom(bytes, CRLF, i) <= i THEN -1
    ELSE HexValue(SubSeq(bytes, i + 1, FindFrom(bytes, CRLF, i)), 0)

\* The offset of the payload of the chunk at offset i.
ChunkStart(bytes, i) == FindFrom(bytes, CRLF, i) + 2

\* At offset i there is a chunk: its length in hexadecimal digits, CRLF, as
\* many bytes of payload as the length says, CRLF.
ChunkAt(bytes, i) ==
    /\ ChunkLen(bytes, i) >= 0
    /\ MatchAt(bytes, CRLF, ChunkStart(bytes, i) + ChunkLen(bytes, i))

ChunkEnd(bytes, i) == ChunkStart(bytes, i) + ChunkLen(bytes, i) + 2

\* The offsets of the chunks the bytes consist of, or <<-1>> if the bytes
\* are not a sequence of chunks.
RECURSIVE ChunkOffsets(_, _, _)
ChunkOffsets(bytes, i, acc) ==
    IF i >= Len(bytes) THEN acc
    ELSE IF ~ChunkAt(bytes, i) THEN <<-1>>
    ELSE ChunkOffsets(bytes, ChunkEnd(bytes, i), Append(acc, i))

Payload(bytes, i) ==
    SubSeq(bytes, ChunkStart(bytes, i) + 1, ChunkStart(bytes, i) + ChunkLen(bytes, i))

\* The payloads of the chunks at the offsets.
Payloads(bytes, offsets) ==
    IF offsets = <<-1>> THEN [ok |-> FALSE]
    ELSE [ok |-> TRUE, chunks |-> [k \in 1 .. Len(offsets) |-> Payload(bytes, offsets[k])]]

Unchunk(bytes) == Payloads(bytes, ChunkOffsets(bytes, 0, <<>>))

\* The bytes are the payloads, in order: payload k is what is in bytes
\* after the payloads before it.
RECURSIVE SumLen(_, _)
SumLen(seqs, k) == IF k = 0 THEN 0 ELSE SumLen(seqs, k - 1) + Len(seqs[k])

IsConcat(bytes, seqs) ==
    /\ Len(bytes) = SumLen(seqs, Len(seqs))
    /\ \A k \in 1 .. Len(seqs) :
          SubSeq(bytes, SumLen(seqs, k - 1) + 1, SumLen(seqs, k)) = seqs[k]

\* What write_multipart makes of the arguments of the call.
Plain == write_multipart(<<>>, call.boundary, call.nodes, call.files)

SameContent(chunks, plain) == chunks.ok /\ plain.ok /\ IsConcat(plain.stream, chunks.chunks)

\* C16: the bytes write_multipart_chunked appends are a sequence of chunks,
\* each its payload length in hexadecimal, CRLF, the payload, CRLF, and the
\* payloads of all the chunks, in order, are the bytes write_multipart
\* writes for the same arguments.
C16_SameContent ==
    (Returned("write_multipart_chunked") /\ result.ok)
    => (Extends /\ SameContent(Unchunk(Appended), Plain))

\* A container with a file in it has been written in chunks, one of them
\* longer than 15 bytes.
C16_Witness ==
    /\ Returned("write_multipart_chunked") /\ result.ok
    /\ call.nodes = <<M_files(<<F_upload>>)>> /\ call.files[UserPath] # <<>>
    /\ Contains(result.stream, CRLF \o <<"1","b">> \o CRLF)

\* The zero-length chunks are the last chunk and no other.
OnlyLastEmpty(chunks) ==
    /\ chunks.ok /\ chunks.chunks # <<>>
    /\ \A i \in 1 .. Len(chunks.chunks) :
          chunks.chunks[i] = <<>> <=> i = Len(chunks.chunks)

\* C17: write_multipart_chunked emits exactly one zero-length chunk, and it
\* is the last chunk of its output.
C17_ZeroChunkLast ==
    (Returned("write_multipart_chunked") /\ result.ok)
    => OnlyLastEmpty(Unchunk(Appended))

\* C18: generate_boundary returns a token as long as the nonce, 68 bytes,
\* with "-" where the nonce has "=", "." where it has "/" and the byte of
\* the nonce everywhere else; the token has no "=" and no "/".
C18_Boundary ==
    Returned("generate_boundary")
    => /\ Len(result.val) = Len(call.nonce) /\ Len(result.val) = 68
       /\ \A i \in 1 .. Len(call.nonce) :
             /\ call.nonce[i] = "=" => result.val[i] = "-"
             /\ call.nonce[i] = "/" => result.val[i] = "."
             /\ call.nonce[i] \notin {"=", "/"} => result.val[i] = call.nonce[i]
             /\ result.val[i] \notin {"=", "/"}

\* A token made of a nonce with a "/" and a "=" in it.
C18_Witness ==
    /\ Returned("generate_boundary")
    /\ \E i, j \in 1 .. Len(call.nonce) :
          /\ call.nonce[i] = "/" /\ result.val[i] = "."
          /\ call.nonce[j] = "=" /\ result.val[j] = "-"
    /\ \E i \in 1 .. Len(call.nonce) : call.nonce[i] = "A" /\ result.val[i] = "A"

\* C19: FilePart::filename is Ok(None) without a content-disposition and
\* for one with neither a filename= nor a filename*=UTF-8'' parameter; it
\* is the value of the plain filename= parameter if there is one, else the
\* value of the extended one, without the double quotes around it.
C19_Filename ==
    Returned("filename") => (result.ok /\ result.val = call.name)

----------------------------------------------------------------------------
(* Properties of the reads                                                 *)

\* C20: the outcome of read_multipart_body depends on the bytes of the
\* source and not on how the reads split them: a body that is parsed into
\* the nodes of its parts when it is read in one piece is parsed into them
\* whatever the number of bytes a read returns.
C20_ChunkIndependent ==
    (Done /\ WellFormed) => (result.ok /\ Mirrors(result.nodes, call.tree))

----------------------------------------------------------------------------
(* Properties of nested containers                                         *)

\* The line that follows the header block of a container whose delimiter is
\* delim: the delimiter line of its first child, or the closing marker.
FirstLine(delim, nodes) == delim \o (IF nodes = <<>> THEN DASHDASH ELSE CRLF)

\* The bytes hold the container's header block, right after it the line in
\* which its delimiter is delim, and the closing marker made of delim at the
\* start of a line.
NestedWritten(bytes, n, delim) ==
    /\ Contains(bytes, header_lines(n.headers) \o CRLF \o FirstLine(delim, n.nodes))
    /\ Contains(bytes, CRLF \o delim \o DASHDASH)

\* C21: for a Multipart node whose headers declare the boundary parameter P,
\* write_multipart writes the delimiter lines of the node's children as
\* "--" P CRLF and its closing marker as "--" P "--": the token that
\* get_multipart_boundary derives from the headers.
C21_NestedDelimiter ==
    (Returned("write_multipart") /\ result.ok)
    => \A i \in 1 .. Len(call.nodes) :
           call.nodes[i].kind = "Multipart"
           => NestedWritten(Appended, call.nodes[i],
                            get_multipart_boundary(call.nodes[i].headers).val)

\* The first nodes of the tree that are containers.
Containers(tree, n) == {i \in 1 .. Min(n, Len(tree)) : tree[i].kind = "Multipart"}

\* C22: a part whose content-type is of top-level type multipart never
\* becomes a Part or a File node, whatever always_use_files and its
\* content-disposition are; it becomes a Multipart node that holds the
\* headers of the part and the parts delimited by its own boundary, all of
\* them, in the order of the input.
C22_NestedRecognition ==
    /\ \A n \in Parsed : IsContainer(n) => n.kind = "Multipart"
    /\ (Done /\ result.ok /\ call.origin = "received" /\ call.whole)
       => /\ Len(result.nodes) <= Len(call.tree)
          /\ \A i \in Containers(call.tree, Len(result.nodes)) :
                MirrorsNode(result.nodes[i], call.tree[i])

----------------------------------------------------------------------------
(* Properties of delimiters that are not written as the rest               *)

Varied == call.origin = "varied"

\* A delimiter after the first is followed by bytes that are neither "--"
\* nor the line terminator of the container.
PaddedLater == Varied /\ call.v.at > 1 /\ call.v.pad # <<>>

\* C23: when the bytes right after a boundary inside the part loop are
\* neither "--" nor the line terminator, parsing fails with
\* NoCrLfAfterBoundary: no byte between the boundary and a later line
\* terminator is skipped.
C23_NoSkipAfterBoundary ==
    (Done /\ PaddedLater) => Failed("NoCrLfAfterBoundary")

\* The line terminator of the sender for the container of activation i.
FrameLt(i) == IF Varied /\ i > 1 THEN call.sub ELSE call.lt

\* Every activation that has sniffed its line terminator holds the one its
\* container was written with, in every state from the sniff on.
KeepsTerminator == \A i \in Sniffers : stack[i].lt = FrameLt(i)

\* The nodes of the outermost container, made so far or returned.
TopNodes ==
    IF pc = "parsing" /\ stack # <<>> THEN stack[1].nodes
    ELSE IF Done /\ result.ok THEN result.nodes
    ELSE <<>>

\* The second delimiter is written with the other line terminator.
OtherWritten == Varied /\ call.v.pre # call.lt

\* The second delimiter was not taken for a delimiter: it is in the content
\* of the first part.
Unrecognized(nodes) ==
    nodes # <<>> => Contains(Content(nodes[1]), DASHDASH \o call.boundary)

\* The second delimiter was matched at its line feed: the first part ends
\* with the carriage return before it.
AtLineFeed(nodes) == nodes # <<>> => Content(nodes[1]) = call.tree[1].body \o <<CR>>

\* Bytes after the first boundary that are no line terminator.
FirstPadded == Varied /\ call.v.at = 1

\* C24 as claimed: the terminator of a container is the one sniffed after
\* its first boundary and stays so for all its parts, a nested container
\* has its own; a delimiter written with the other line terminator is not
\* recognized; bytes after the first boundary that are neither CRLF nor LF
\* give NoCrLfAfterBoundary.
C24_Original ==
    /\ KeepsTerminator
    /\ OtherWritten => Unrecognized(TopNodes)
    /\ (Done /\ FirstPadded) => Failed("NoCrLfAfterBoundary")

\* C24 amended: as claimed, but a delimiter written with the other line
\* terminator is not recognized only by a container that sniffed CRLF; a
\* container that sniffed LF matches the delimiter written with CRLF at its
\* line feed, and the carriage return is the last byte of the part.
C24_Terminator ==
    /\ KeepsTerminator
    /\ OtherWritten
       => IF call.lt = CRLF THEN Unrecognized(TopNodes) ELSE AtLineFeed(TopNodes)
    /\ (Done /\ FirstPadded) => Failed("NoCrLfAfterBoundary")

\* An LF container whose second delimiter is written with CRLF, holding a
\* nested container written with CRLF, has been parsed: the first part ends
\* with a carriage return and the nested container has its two parts.
C24_Witness ==
    /\ Done /\ result.ok /\ OtherWritten /\ call.lt = LF /\ call.sub = CRLF
    /\ Len(result.nodes) = 2
    /\ Content(result.nodes[1]) = <<"x", CR>>
    /\ result.nodes[2].kind = "Multipart" /\ Len(result.nodes[2].nodes) = 2

----------------------------------------------------------------------------
(* Properties of header blocks                                             *)

\* The lines of the block that precede its first line without a value.
Kept(lines) ==
    SubSeq(lines, 1,
           MinOf({i \in 1 .. Len(lines) : lines[i].value = <<>>} \cup {Len(lines) + 1}) - 1)

\* A line of the block is no header line, or the block has more lines than
\* there are slots.
Unparsable(lines, slots) ==
    Len(lines) > slots \/ \E i \in 1 .. Len(lines) : ~IsToken(lines[i].name)

\* The headers of the first part.
FirstBlock == call.tree[1].headers

\* The first part has been made a node, with the headers its block keeps.
KeptInPart == TopNodes # <<>> => TopNodes[1].headers = Kept(FirstBlock)

\* The headers of the request have been made the headers of the outermost
\* container, as the block keeps them.
KeptInMain == (pc = "parsing" /\ stack # <<>>) => stack[1].headers = Kept(call.head)

\* C25 as claimed: a header block with a line that has no value gives the
\* headers before that line, in order and with duplicates, without that
\* line and the lines after it, and no error is raised for those lines.
C25_Original ==
    /\ call.origin = "sparse"
       => /\ KeptInPart
          /\ (Done /\ FromMemory) => (result.ok /\ Len(result.nodes) = Len(call.tree))
    /\ call.origin = "sparse request"
       => /\ KeptInMain
          /\ Done => ~Failed("Httparse")

\* C25 amended: as claimed when the lines after the one without a value are
\* header lines and the block has no more lines than slots; a later line
\* that is no header line, or more lines than slots, gives an Httparse
\* error.
C25_StopRule ==
    /\ call.origin = "sparse"
       => /\ KeptInPart
          /\ (Done /\ FromMemory)
             => IF Unparsable(FirstBlock, PartHeaderSlots) THEN Failed("Httparse")
                ELSE result.ok /\ Len(result.nodes) = Len(call.tree)
    /\ call.origin = "sparse request"
       => /\ KeptInMain
          /\ Done => (Unparsable(call.head, MainHeaderSlots) <=> Failed("Httparse"))

\* A part whose block has two content-disposition lines, a line without a
\* value and a content-type line has become a node with the two
\* content-disposition headers alone, in the order of the block.
C25_Witness ==
    /\ Done /\ result.ok /\ call.origin = "sparse" /\ ~call.always_use_files
    /\ FirstBlock = <<H_form, H_file, H_empty, H_type>>
    /\ result.nodes[1].headers = <<H_form, H_file>>
    /\ Get(result.nodes[1].headers, S_content_type) = <<>>

\* The content-type is there and is no text or no media type.
BadType(hs) == ~is_nested(hs).ok

\* The content-disposition is there and is no text.
BadDisposition(hs) ==
    Get(hs, S_content_disposition) # <<>> /\ ~ToStrOk(Get(hs, S_content_disposition)[1])

\* The error for a content-type: ToStr if it is no text, else
\* HeaderValueNotMime.
TypeError(hs) ==
    IF ToStrOk(Get(hs, S_content_type)[1]) THEN "HeaderValueNotMime" ELSE "ToStr"

LastPart == call.tree[Len(call.tree)]

\* A body whose last part has such a header, read in one piece.
Opaque == Done /\ call.origin = "opaque" /\ FromMemory

\* The last part has been made a node of the kind.
LastMade(kind) ==
    /\ result.ok /\ Len(result.nodes) = Len(call.tree)
    /\ result.nodes[Len(result.nodes)].kind = kind

\* No in-memory part has a content-type or a content-disposition that
\* cannot be interpreted.
NoOpaquePart ==
    \A n \in Parsed : (BadType(n.headers) \/ BadDisposition(n.headers)) => n.kind # "Part"

\* C26 as claimed: a part whose content-type is no media type makes parsing
\* fail with HeaderValueNotMime, a part whose content-type or
\* content-disposition is no text makes it fail with ToStr, and no such part
\* becomes a Part node.
C26_Original ==
    /\ NoOpaquePart
    /\ (Opaque /\ BadType(LastPart.headers)) => Failed(TypeError(LastPart.headers))
    /\ (Opaque /\ ~BadType(LastPart.headers) /\ BadDisposition(LastPart.headers))
       => Failed("ToStr")

\* C26 amended: as claimed for the content-type; a content-disposition that
\* is no text makes parsing fail with ToStr when the part is no nested
\* container and always_use_files is false; a nested container becomes a
\* Multipart node and, with always_use_files true, a leaf becomes a File
\* node, the content-disposition not being looked at.
C26_Fatal ==
    /\ NoOpaquePart
    /\ (Opaque /\ BadType(LastPart.headers)) => Failed(TypeError(LastPart.headers))
    /\ (Opaque /\ ~BadType(LastPart.headers) /\ BadDisposition(LastPart.headers))
       => IF IsContainer(LastPart) THEN LastMade("Multipart")
          ELSE IF call.always_use_files THEN LastMade("File")
          ELSE Failed("ToStr")

\* The parse of a body whose last part has a content-type that is text and
\* a content-disposition that is not has failed with ToStr, after a part was
\* made.
C26_Witness ==
    /\ Opaque /\ Failed("ToStr") /\ ~call.always_use_files
    /\ Get(LastPart.headers, S_content_type) = <<V_text_plain>>
    /\ BadDisposition(LastPart.headers)
    /\ pos > Len(call.src) - 10

----------------------------------------------------------------------------
(* Properties of the two entry points                                      *)

\* read_multipart_body has returned, on the body and the headers of a
\* request read_multipart had been given.
BothReturned == Done /\ call.origin = "body of request"

\* C27: for a header block and a body, read_multipart on the stream of the
\* header block followed by the body gives the outcome, the same tree or
\* the same kind of error, that read_multipart_body gives on the body with
\* the headers made of the header block.
C27_EntryPointsAgree == BothReturned => Outcome(result) = call.earlier

----------------------------------------------------------------------------
(* Properties of the boundaries of a tree                                  *)

\* The boundary the headers of a container declare.
Declared(n) == get_multipart_boundary(n.headers).val

RECURSIVE BoundariesDiffer(_, _)

\* No container among the nodes, at any depth, declares a boundary of the
\* set above or of a container it is in.
BoundariesDiffer(above, nodes) ==
    \A i \in 1 .. Len(nodes) :
        nodes[i].kind = "Multipart"
        => /\ Declared(nodes[i]) \notin above
           /\ BoundariesDiffer(above \cup {Declared(nodes[i])}, nodes[i].nodes)

\* C28: in every tree the parser returns, the boundary a Multipart node
\* declares differs from the boundary of the container it is in and from
\* the boundaries of the Multipart nodes below it.
C28_DistinctBoundaries ==
    (Done /\ result.ok) => BoundariesDiffer({DASHDASH \o call.boundary}, result.nodes)

----------------------------------------------------------------------------
(* Termination of the parser                                               *)

\* The bytes of the source that have not been consumed.
Remaining == Len(call.src) - pos

\* What an activation has left to do before it consumes a byte or returns.
PhaseRank(phase) ==
    IF phase = "body" THEN 3 ELSE IF phase = "sniff" THEN 1 ELSE 0

\* What the activations have left to do without consuming a byte.
Pending == IF stack = <<>> THEN 0 ELSE 2 * Len(stack) + PhaseRank(Top.phase)

\* The step leaves the parser running.
GoesOn == pc = "parsing" /\ pc' = "parsing"

\* A step of the parser consumes a byte, or consumes none and has less left
\* to do without consuming.
Progress ==
    GoesOn => \/ Remaining' < Remaining
              \/ Remaining' = Remaining /\ Pending' < Pending

\* A turn of the part loop that does not return, and the scan for the first
\* boundary a call of inner starts with, consume a byte.
Consumes ==
    (GoesOn /\ Top.phase \in {"loop", "boundary"} /\ Len(stack') >= Len(stack))
    => pos' > pos

\* C29: read_multipart_body returns, with Ok or with an error, for every
\* source, flag and depth of nesting: every turn of the part loop and every
\* call of inner that goes on consumes a byte of the source, every step
\* makes progress, and a call that has been entered returns.
C29_Terminates ==
    /\ [][Progress /\ Consumes]_vars
    /\ (pc = "parsing") ~> Done

\* A body with a container in a container has been parsed to its end, files
\* included, and the call has returned Ok.
C29_Witness ==
    /\ Done /\ result.ok /\ call.always_use_files /\ call.tree \in DeepTrees
    /\ Len(call.tree) = 2 /\ call.whole
    /\ \E n \in Parsed : n.kind = "File" /\ n.size # <<0>>

----------------------------------------------------------------------------
(* Clones of a FilePart and the file on disk.                              *)

\* No public path field has been set to another path: every value made by
\* new refers to the caller's file, every other one to the file in the
\* temporary directory it was made with.
PathsAsMade ==
    \A j \in 1 .. Len(objs) :
        /\ objs[j].made = "new" => objs[j].fp.path = UserPath
        /\ objs[j].made # "new" =>
              /\ objs[j].fp.path.dir # UserDir
              /\ objs[j].fp.tempdir # <<>> =>
                    objs[j].fp.path = TempPath(objs[j].fp.tempdir[1])

\* The value i is the FilePart of a File node as a parse returns it: made by
\* FilePart::create, its file created, still alive and not relinquished.
LiveOwned(i) ==
    /\ Alive(i)
    /\ objs[i].made = "create"
    /\ ~objs[i].relinquished
    /\ objs[i].fp.path \in created

\* C30: the file of a File node that is alive and has not been relinquished
\* is on disk, whatever clones of nodes have been made and dropped.
C30_LiveFileStays ==
    PathsAsMade =>
        \A i \in 1 .. Len(objs) : LiveOwned(i) => FileExists(fs, objs[i].fp.path)

----------------------------------------------------------------------------
(* The room for header lines                                               *)

\* A part of the sequence has more header lines than parse_headers has
\* room for in a part.
OverLong(tree) == \E i \in 1 .. Len(tree) : Len(tree[i].headers) > PartHeaderSlots

\* The call has returned Ok with the nodes of the parts that were sent.
Accepted == result.ok /\ Mirrors(result.nodes, call.tree)

\* A body with counted header lines has been parsed from memory.
Counted == Done /\ call.origin = "counted" /\ FromMemory

\* A request with counted header lines has been parsed.
CountedRequest == Done /\ call.origin = "counted request"

PartLimit == Counted => IF OverLong(call.tree) THEN Failed("Httparse") ELSE Accepted

MainLimit ==
    CountedRequest
    => IF Len(call.head) > MainHeaderSlots THEN Failed("Httparse") ELSE Accepted

\* C31: a part whose header block has more than 4 header lines makes the
\* parse fail with an Httparse error, and so does a request with more than
\* 64 header lines; a block with at most 4 (at most 64) valid header lines
\* is accepted.
C31_HeaderLimits == PartLimit /\ MainLimit

\* Every part that was sent has a header line.
AllHeaded == \A i \in 1 .. Len(call.tree) : call.tree[i].headers # <<>>

\* The limits as they hold: for parts with at least one header line.
HeadedLimits == AllHeaded => (PartLimit /\ MainLimit)

====
